---- MODULE Spec2Model ----
(***************************************************************************)
(* Model of the document-QA backend in src/my-react-app/src/backend:       *)
(* the per-user vector store and upload directories (document_processing), *)
(* the chat / doc-QA chains and the memory registry (llm_chain) and the    *)
(* HTTP handlers (main); and of the single-store variant in                *)
(* src/my-react-app, with its one vector store and process-wide chain.     *)
(***************************************************************************)
EXTENDS Integers, Sequences, FiniteSets, TLC

VARIABLES chroma, uploads, active, memory, nextMemId, llm_systems, stream, lastOp,
          doc_qa_chain, CHROMA_PATH

vars == <<chroma, uploads, active, memory, nextMemId, llm_systems, stream, lastOp,
          doc_qa_chain, CHROMA_PATH>>

-----------------------------------------------------------------------------
(* Bounds of the model *)

\* longest server-retained history of one memory object
MaxHist == 1
\* number of memory objects init_memory may create in one behaviour
MaxMemObjects == 3

\* the most chunks a document handed to the summary has
MaxSummaryChunks == 4

\* the longest chat history a client sends
MaxTurns == 12

-----------------------------------------------------------------------------
(* User ids and storage paths *)

\* A user id is an arbitrary string (X-User-ID header or ChatRequest.user_id);
\* it is modelled by its split at the path separator.
UserIds == {<<"a">>, <<"a", "b">>}

CHROMA_BASE_PATH == "chroma_db"

UPLOAD_DIR == "uploads"

\* f"user_{user_id}": the prefix sticks to the first segment of the id only
UserDirName(user_id) == <<<<"user_", Head(user_id)>>>> \o Tail(user_id)

\* os.path.join(CHROMA_BASE_PATH, f"user_{user_id}")
UserChromaPath(user_id) == <<CHROMA_BASE_PATH>> \o UserDirName(user_id)

\* os.path.join(UPLOAD_DIR, f"user_{user_info['user_id']}")
UserUploadDir(user_id) == <<UPLOAD_DIR>> \o UserDirName(user_id)

ChromaPaths == {UserChromaPath(u) : u \in UserIds}

UploadPaths == {UserUploadDir(u) : u \in UserIds}

\* path p is q or an ancestor directory of q
IsPrefix(p, q) == Len(p) <= Len(q) /\ \A i \in 1..Len(p) : p[i] = q[i]

-----------------------------------------------------------------------------
(* The file system: one entry per user path.  dir: the directory exists;   *)
(* db: the Chroma database files exist in it; recs: the chunks stored in   *)
(* the collection; files: the uploaded files in an upload directory.       *)

AbsentStore == [dir |-> FALSE, db |-> FALSE, recs |-> {}]

AbsentUploads == [dir |-> FALSE, files |-> {}]

\* os.makedirs(p, exist_ok=True): creates p and its missing ancestors
makedirs(fs, p) ==
    [q \in DOMAIN fs |-> IF IsPrefix(q, p) THEN [fs[q] EXCEPT !.dir = TRUE] ELSE fs[q]]

\* a shutil.rmtree(p) that succeeds: p and everything below it is gone
rmtree(fs, p, absent) ==
    [q \in DOMAIN fs |-> IF IsPrefix(p, q) THEN absent ELSE fs[q]]

\* os.listdir(p) is non-empty
ListdirNonEmpty(fs, p) ==
    fs[p].db \/ \E q \in DOMAIN fs : q # p /\ IsPrefix(p, q) /\ fs[q].dir

\* os.path.exists(p)
PathExists(fs, p) == fs[p].dir

-----------------------------------------------------------------------------
(* Uploaded files.  A file is what the client sends: a name with an        *)
(* extension, and the content as the loader and the splitter see it:       *)
(* pages segments, and the chunks RecursiveCharacterTextSplitter cuts.     *)

Chunk(doc, i) == [doc |-> doc, i |-> i, blank |-> FALSE]

FileA == [name |-> "report", ext |-> ".pdf", doc |-> "A", pages |-> 3,
          chunks |-> <<Chunk("A", 1), Chunk("A", 2), Chunk("A", 3), Chunk("A", 4), Chunk("A", 5)>>]

FileB == [name |-> "report", ext |-> ".pdf", doc |-> "B", pages |-> 1,
          chunks |-> <<Chunk("B", 1)>>]

FileC == [name |-> "tool", ext |-> ".exe", doc |-> "C", pages |-> 1,
          chunks |-> <<Chunk("C", 1)>>]

\* a supported extension in upper case
FileD == [name |-> "report", ext |-> ".PDF", doc |-> "D", pages |-> 1,
          chunks |-> <<Chunk("D", 1)>>]

Files == {FileA, FileB, FileC}

\* a chunk whose text is white space only
BlankChunk(doc, i) == [doc |-> doc, i |-> i, blank |-> TRUE]

\* a text file with a blank chunk among its chunks
FileE == [name |-> "notes", ext |-> ".txt", doc |-> "E", pages |-> 2,
          chunks |-> <<BlankChunk("E", 1), Chunk("E", 2), BlankChunk("E", 3)>>]

\* a text file of white space
FileF == [name |-> "notes", ext |-> ".txt", doc |-> "F", pages |-> 1,
          chunks |-> <<BlankChunk("F", 1)>>]

FilesWithBlanks == {FileB, FileE, FileF}

\* the same, with a file whose extension is written in capitals
FilesAnyCase == Files \cup {FileD}

FileName(file) == <<file.name, file.ext>>

\* a configuration that also lets executables through
ExtensionsWithExe == {".txt", ".pdf", ".docx", ".doc", ".exe"}

ALLOWED_EXTENSIONS == {".txt", ".pdf", ".docx", ".doc"}

\* str.lower() on the extensions the model uses
Lower(ext) ==
    CASE ext = ".PDF" -> ".pdf"
      [] ext = ".TXT" -> ".txt"
      [] ext = ".Docx" -> ".docx"
      [] OTHER -> ext

-----------------------------------------------------------------------------
(* document_processing.py *)

\* _active_vector_stores_by_user: user id -> list of tracked store handles
Handle(user_id) == [path |-> UserChromaPath(user_id)]

\* a cleanup that leaves the registry as it is
cleanup_keeping_handles(act, user_id) == act

\* cleanup_user_vector_stores: every tracked handle of the user is closed
\* (best effort), the list is cleared and the now empty entry is deleted
cleanup_user_vector_stores(act, user_id) ==
    [v \in DOMAIN act \ {user_id} |-> act[v]]

\* Outcomes of one shutil.rmtree call
RmOutcomes == {"ok", "busy", "oserror"}

max_retries == 3

\* The environment of one clear: the outcomes of the successive rmtree calls
\* (a call is made only after resource-busy failures of all earlier ones) and
\* whether the file-by-file fallback manages to remove the files.
RmPlans ==
    {[rm |-> <<"ok">>, fb |-> TRUE],
     [rm |-> <<"busy", "ok">>, fb |-> TRUE],
     [rm |-> <<"busy", "busy", "ok">>, fb |-> TRUE],
     [rm |-> <<"oserror">>, fb |-> TRUE],
     [rm |-> <<"busy", "oserror">>, fb |-> TRUE],
     [rm |-> <<"busy", "busy", "oserror">>, fb |-> TRUE],
     [rm |-> <<"busy", "busy", "busy">>, fb |-> TRUE],
     [rm |-> <<"busy", "busy", "busy">>, fb |-> FALSE]}

\* one plan for each way a clear can end
RmPlansBrief ==
    {[rm |-> <<"ok">>, fb |-> TRUE],
     [rm |-> <<"oserror">>, fb |-> TRUE],
     [rm |-> <<"busy", "busy", "busy">>, fb |-> TRUE],
     [rm |-> <<"busy", "busy", "busy">>, fb |-> FALSE]}

\* os.walk(path, topdown=False) with os.remove / os.rmdir, errors swallowed:
\* when the removals succeed the files and the sub-directories are gone and
\* the directory itself stays; when they fail nothing changes.
FallbackWalk(fs, p, fb) ==
    IF fb
    THEN [q \in DOMAIN fs |->
            IF IsPrefix(p, q)
            THEN [dir |-> (q = p), db |-> FALSE, recs |-> {}]
            ELSE fs[q]]
    ELSE fs

\* the retry loop of clear_user_vector_store, from attempt number attempt
RECURSIVE RmtreeLoop(_, _, _, _)
RmtreeLoop(fs, p, plan, attempt) ==
    LET outcome == plan.rm[attempt + 1] IN
    CASE outcome = "ok" ->
            [fs |-> rmtree(fs, p, AbsentStore), raised |-> FALSE,
             attempts |-> attempt + 1, sleeps |-> attempt, fallback |-> FALSE]
      [] outcome = "busy" /\ attempt < max_retries - 1 ->
            RmtreeLoop(fs, p, plan, attempt + 1)
      [] outcome = "busy" /\ ~(attempt < max_retries - 1) ->
            [fs |-> FallbackWalk(fs, p, plan.fb), raised |-> FALSE,
             attempts |-> attempt + 1, sleeps |-> attempt, fallback |-> TRUE]
      [] OTHER ->
            [fs |-> fs, raised |-> TRUE,
             attempts |-> attempt + 1, sleeps |-> attempt, fallback |-> FALSE]

\* clear_user_vector_store(user_id); d is [chroma, uploads, active]
clear_user_vector_store(d, user_id, plan) ==
    LET act1 == cleanup_user_vector_stores(d.active, user_id)
        p    == UserChromaPath(user_id)
        fs1  == makedirs(d.chroma, p)          \* get_user_chroma_path
        loop == RmtreeLoop(fs1, p, plan, 0)    \* os.path.exists(p) holds here
    IN  [d |-> [d EXCEPT !.chroma = loop.fs, !.active = act1],
         raised |-> loop.raised, attempts |-> loop.attempts,
         sleeps |-> loop.sleeps, fallback |-> loop.fallback]

\* a clear that leaves the handles where they are
cleanup_skipped(act, user_id, close) == <<>>

\* the steps cleanup_user_vector_stores takes, in order: each tracked handle
\* has its close tried (close is what _client.reset() does: "ok" or "raise",
\* the exception being logged and swallowed), then the list is cleared and
\* the entry deleted
cleanup_user_vector_stores_steps(act, user_id, close) ==
    IF user_id \in DOMAIN act
    THEN [i \in 1 .. Len(act[user_id]) |->
            [step |-> "close", handle |-> act[user_id][i], closed |-> (close = "ok")]]
         \o <<[step |-> "unregister"]>>
    ELSE <<>>

\* a retry loop that backs off after the last attempt as well
RmtreeLoopAlwaysSleeps(plan, attempt, registered) ==
    LET Try(i) == <<[step |-> "rmtree", outcome |-> plan.rm[i], registered |-> registered]>>
        Nap    == <<[step |-> "sleep"]>>
    IN  CASE plan.rm = <<"busy", "busy", "busy">> ->
                Try(1) \o Nap \o Try(2) \o Nap \o Try(3) \o Nap \o <<[step |-> "walk"]>>
          [] plan.rm[Len(plan.rm)] = "ok" ->
                IF Len(plan.rm) = 1 THEN Try(1)
                ELSE IF Len(plan.rm) = 2 THEN Try(1) \o Nap \o Try(2)
                ELSE Try(1) \o Nap \o Try(2) \o Nap \o Try(3)
          [] OTHER ->
                IF Len(plan.rm) = 1 THEN Try(1) \o <<[step |-> "raise"]>>
                ELSE IF Len(plan.rm) = 2 THEN Try(1) \o Nap \o Try(2) \o <<[step |-> "raise"]>>
                ELSE Try(1) \o Nap \o Try(2) \o Nap \o Try(3) \o <<[step |-> "raise"]>>

\* the steps of the retry loop, from attempt number attempt; registered is
\* the number of handles of the user in the registry while the loop runs
RECURSIVE RmtreeLoopSteps(_, _, _)
RmtreeLoopSteps(plan, attempt, registered) ==
    LET outcome == plan.rm[attempt + 1]
        try     == <<[step |-> "rmtree", outcome |-> outcome, registered |-> registered]>>
    IN  CASE outcome = "ok" -> try
          [] outcome = "busy" /\ attempt < max_retries - 1 ->
                try \o <<[step |-> "sleep"]>> \o RmtreeLoopSteps(plan, attempt + 1, registered)
          [] outcome = "busy" /\ ~(attempt < max_retries - 1) ->
                try \o <<[step |-> "walk"]>>
          [] OTHER -> try \o <<[step |-> "raise"]>>

\* the steps of clear_user_vector_store(user_id), in order; the retry loop
\* runs with the handles the cleanup has left in the registry
clear_user_vector_store_steps(act, user_id, plan, close) ==
    LET cleanup == cleanup_user_vector_stores_steps(act, user_id, close)
        left    == IF \E i \in DOMAIN cleanup : cleanup[i].step = "unregister"
                   THEN 0
                   ELSE Len(IF user_id \in DOMAIN act THEN act[user_id] ELSE <<>>)
    IN  cleanup \o RmtreeLoopSteps(plan, 0, left)

\* clear_user_uploaded_files(user_id); rmU is the outcome of its rmtree
clear_user_uploaded_files(d, user_id, rmU) ==
    LET p == UserUploadDir(user_id) IN
    IF PathExists(d.uploads, p)
    THEN IF rmU = "ok"
         THEN [d |-> [d EXCEPT !.uploads = rmtree(d.uploads, p, AbsentUploads)],
               raised |-> FALSE]
         ELSE [d |-> d, raised |-> TRUE]
    ELSE [d |-> d, raised |-> FALSE]

\* clear_user_document_data(user_id): both clears are tried, errors are
\* collected and logged, nothing is raised
clear_user_document_data(d, user_id, plan, rmU) ==
    LET r1 == clear_user_vector_store(d, user_id, plan)
        r2 == clear_user_uploaded_files(r1.d, user_id, rmU)
    IN  [d |-> r2.d,
         errors |-> (IF r1.raised THEN {"vector_store"} ELSE {}) \cup
                    (IF r2.raised THEN {"uploaded_files"} ELSE {}),
         attempts |-> r1.attempts, sleeps |-> r1.sleeps, fallback |-> r1.fallback]

\* cleanup_vector_stores(): cleanup_user_vector_stores for every user of
\* the registry
RECURSIVE cleanup_vector_stores(_)
cleanup_vector_stores(act) ==
    IF DOMAIN act = {} THEN act
    ELSE cleanup_vector_stores(
            cleanup_user_vector_stores(act, CHOOSE v \in DOMAIN act : TRUE))

\* clear_all_user_documents(): the handles of every user are released and
\* CHROMA_BASE_PATH is deleted with the same retry loop and fallback, then
\* made again (the base directory is not an entry of the file system here);
\* an error is logged and not raised
clear_all_user_documents(d, plan) ==
    LET act1 == cleanup_vector_stores(d.active)
        loop == RmtreeLoop(d.chroma, <<CHROMA_BASE_PATH>>, plan, 0)
    IN  [d |-> [d EXCEPT !.chroma = loop.fs, !.active = act1], raised |-> FALSE]

\* clear_all_document_data(): clear_all_user_documents() and nothing else
clear_all_document_data(d, plan) == clear_all_user_documents(d, plan)

\* the encodings the .txt branch of process_uploaded_file tries, in order
encodings == <<"utf-8", "gbk", "gb2312", "utf-8-sig", "latin-1">>

\* what TextLoader(file_path, encoding).load() does with one encoding: it
\* loads ("ok"), raises UnicodeDecodeError or raises something else
LoadOutcomes == {"ok", "decode_error", "error"}

\* a loop that tries every encoding and keeps the last one that loaded
RECURSIVE load_text_keeps_last(_, _)
load_text_keeps_last(outcomes, i) ==
    IF i > Len(encodings)
    THEN [raised |-> TRUE, encoding |-> "none", tried |-> encodings]
    ELSE LET rest == load_text_keeps_last(outcomes, i + 1) IN
         IF rest.raised /\ outcomes[encodings[i]] = "ok"
         THEN [raised |-> FALSE, encoding |-> encodings[i], tried |-> encodings]
         ELSE rest

\* the loop over the encodings of the .txt branch, from the i-th one:
\* outcomes gives what the load does with each encoding.  The first load
\* that succeeds is returned; both kinds of error go on to the next
\* encoding; after the last one ValueError is raised.
RECURSIVE load_text_file(_, _)
load_text_file(outcomes, i) ==
    IF i > Len(encodings)
    THEN [raised |-> TRUE, encoding |-> "none", tried |-> encodings]
    ELSE IF outcomes[encodings[i]] = "ok"
    THEN [raised |-> FALSE, encoding |-> encodings[i], tried |-> SubSeq(encodings, 1, i)]
    ELSE load_text_file(outcomes, i + 1)

\* the branch of process_uploaded_file that file_path.endswith(...) selects;
\* str.endswith compares the characters as they are written
loader_for(ext) ==
    CASE ext = ".txt" -> "TextLoader"
      [] ext = ".pdf" -> "PyPDFLoader"
      [] ext = ".docx" -> "Docx2txtLoader"
      [] ext = ".doc" -> "Docx2txtLoader"
      [] OTHER -> "unsupported"

\* process_uploaded_file(file_path): the loader is chosen by the (case
\* sensitive) end of the path; it raises when the file is missing or cannot
\* be read
process_uploaded_file(d, user_id, file, readable) ==
    IF loader_for(file.ext) = "unsupported"
    THEN [raised |-> TRUE, documents |-> 0]
    ELSE IF FileName(file) \notin d.uploads[UserUploadDir(user_id)].files \/ ~readable
         THEN [raised |-> TRUE, documents |-> 0]
         ELSE [raised |-> FALSE, documents |-> file.pages]

\* split_documents(documents)
split_documents(file) == file.chunks

\* the splitter's chunk_size: no chunk text is longer
chunk_size == 300

\* the default of generate_document_summary's max_length
max_length == 500

\* a chunk text (page_content) of n characters
PageContent(n) == [i \in 1 .. n |-> "x"]

\* " ".join(texts)
RECURSIVE Join(_)
Join(texts) ==
    IF texts = <<>> THEN <<>>
    ELSE IF Len(texts) = 1 THEN Head(texts)
    ELSE Head(texts) \o <<" ">> \o Join(Tail(texts))

\* generate_document_summary(documents): documents are the chunk texts
generate_document_summary(documents) ==
    LET first   == SubSeq(documents, 1, IF Len(documents) < 3 THEN Len(documents) ELSE 3)
        content == Join(first)
    IN  IF Len(content) > max_length
        THEN SubSeq(content, 1, max_length) \o <<".", ".", ".">>
        ELSE content

\* init_embeddings(): the health check embed_query("test") answers with a
\* vector ("ok"), with an empty vector ("empty") or raises ("raise").  The
\* inner handler swallows the exception and the function then falls off its
\* end: in both failure cases it returns None and raises nothing.
init_embeddings(health) ==
    IF health = "ok"
    THEN [raised |-> FALSE, value |-> "embeddings"]
    ELSE [raised |-> FALSE, value |-> "None"]

\* a rebuild that keeps every chunk
all_docs(split_docs) == split_docs

\* valid_docs of init_vector_store: the chunks whose page_content.strip()
\* is not empty
valid_docs(split_docs) == SelectSeq(split_docs, LAMBDA c : ~c.blank)

\* the verification at the end of init_vector_store: count is what
\* vector_store._collection.count() gives, unless count_raises.  The
\* ValueError raised for a count of 0 is raised inside the try whose handler
\* logs a warning and goes on, like an error of count() itself.
verify_vector_store(count_raises, count) ==
    [raised |-> FALSE, warned |-> (count_raises \/ count = 0)]

\* init_vector_store(documents, user_id).  store is the outcome of
\* Chroma.from_documents: "ok", or "raise" once the client has created the
\* database files and before any record is inserted; "no_records" when it
\* returns a store whose collection holds no record, "count_raises" when the
\* records are there and the count of the verification raises.
init_vector_store(d, split_docs, user_id, health, store) ==
    LET act1  == cleanup_user_vector_stores(d.active, user_id)
        d1    == [d EXCEPT !.active = act1]
        valid == valid_docs(split_docs)
        p     == UserChromaPath(user_id)
        fs1   == makedirs(d.chroma, p)
        emb   == init_embeddings(health)
    IN  IF valid = <<>>
        THEN [d |-> d1, raised |-> TRUE, embeddings |-> "not_reached"]
        ELSE IF emb.raised
        THEN [d |-> [d1 EXCEPT !.chroma = fs1], raised |-> TRUE, embeddings |-> "raised"]
        ELSE IF store = "raise"
        THEN [d |-> [d1 EXCEPT !.chroma = [fs1 EXCEPT ![p].db = TRUE]],
              raised |-> TRUE, embeddings |-> emb.value]
        ELSE LET inserted == IF store = "no_records" THEN {}
                             ELSE {valid[i] : i \in 1..Len(valid)}
                 check    == verify_vector_store(store = "count_raises", Cardinality(inserted))
             IN
             [d |-> [d1 EXCEPT
                      !.chroma = [fs1 EXCEPT ![p].db = TRUE,
                                             ![p].recs = @ \cup inserted],
                      !.active = [v \in DOMAIN act1 \cup {user_id} |->
                                    IF v = user_id
                                    THEN (IF v \in DOMAIN act1 THEN act1[v] ELSE <<>>)
                                            \o <<Handle(user_id)>>
                                    ELSE act1[v]]],
              raised |-> check.raised, embeddings |-> emb.value]

-----------------------------------------------------------------------------
(* llm_chain.py: the doc-QA chain and the chat chains *)

\* the answer of EmptyDocQAChain.invoke and the message EmptyDocQAChain.astream
\* spells, as character sequences (shortened)
EmptyInvokeAnswer == <<"n", "o", "d">>

EmptyStreamMessage == <<"n", "o", "d">>

\* "处理文档时发生错误，请稍后再试"
DocErrorMessage == <<"d", "e">>

\* "系统处理请求时出错，请稍后再试"
SystemErrorMessage == <<"s", "e">>

\* search_kwargs={"k": 4}
TopK == 4

\* EmptyDocQAChain.invoke: a dict holding the answer, not a string
EmptyDocQAChain_invoke == [type |-> "dict", answer |-> EmptyInvokeAnswer]

\* EmptyDocQAChain.astream: one increment per character of the message
EmptyDocQAChain_astream == [i \in 1..Len(EmptyStreamMessage) |-> <<EmptyStreamMessage[i]>>]

\* What the completion model can give back to one call: the increments of
\* its output (an increment may be empty), or a failure after some of them.
LLMOutputs ==
    {[chunks |-> <<<<"o">>, <<>>, <<"k", " ">>>>, fails |-> FALSE],
     [chunks |-> <<<<"o">>>>, fails |-> TRUE],
     [chunks |-> <<>>, fails |-> TRUE]}

\* what one non-streaming call of the completion model can give back
LLMAnswers == {o \in LLMOutputs : o.fails => o.chunks = <<>>}

RECURSIVE Concat(_)
Concat(seqs) == IF seqs = <<>> THEN <<>> ELSE Head(seqs) \o Concat(Tail(seqs))

\* a retriever without the limit of k
RetrievalsUnlimited(recs) == {recs}

\* the contexts the similarity search can return: at most k of the stored chunks
Retrievals(recs) ==
    {c \in SUBSET recs : Cardinality(c) = (IF Cardinality(recs) < TopK THEN Cardinality(recs) ELSE TopK)}

\* the text of a chunk (doc.page_content), as a sequence of characters
page_content(c) == <<c.doc, c.i>>

\* the place of a chunk in the ranking by similarity to a question; the
\* question decides between the two rankings
SimilarityRank(c, question) ==
    LET k == 2 * c.i + (IF c.doc = "A" THEN 0 ELSE 1) IN
    IF question = "first" THEN k ELSE 0 - k

\* the list the retriever returns: the retrieved chunks by decreasing similarity
RECURSIVE Ranked(_, _)
Ranked(ctx, question) ==
    IF ctx = {} THEN <<>>
    ELSE LET best == CHOOSE c \in ctx :
                        \A e \in ctx : SimilarityRank(c, question) <= SimilarityRank(e, question)
         IN  <<best>> \o Ranked(ctx \ {best}, question)

\* format_docs(docs): "\n\n".join(doc.page_content for doc in docs)
RECURSIVE format_docs(_)
format_docs(docs) ==
    IF docs = <<>> THEN <<>>
    ELSE IF Len(docs) = 1 THEN page_content(docs[1])
    ELSE page_content(docs[1]) \o <<"\n", "\n">> \o format_docs(Tail(docs))

\* init_doc_qa_system(llm, user_id): get_user_chroma_path creates the
\* directory; an absent or empty directory gives the EmptyDocQAChain, and so
\* does any exception (open = "raise": Chroma(...) fails); otherwise the
\* Chroma client opens (and creates) the database under the directory.
init_doc_qa_system(d, user_id, health, open) ==
    LET p   == UserChromaPath(user_id)
        fs1 == makedirs(d.chroma, p)
        d1  == [d EXCEPT !.chroma = fs1]
    IN  IF ~PathExists(fs1, p) \/ ~ListdirNonEmpty(fs1, p)
        THEN [d |-> d1, chain |-> "empty"]
        ELSE IF init_embeddings(health).raised \/ open = "raise"
        THEN [d |-> d1, chain |-> "empty"]
        ELSE [d |-> [d1 EXCEPT !.chroma = [fs1 EXCEPT ![p].db = TRUE]], chain |-> "lcel"]

\* the static function-type -> role-description table of get_response; a
\* description is the text of its function type, and for game_wiki the
\* answer format it asks for, which is a list of six points here
role_descriptions_get_response ==
    [f \in {"play", "game_guide", "doc_qa", "game_wiki"} |->
        IF f = "game_wiki" THEN <<"role", f, "format of 6 points">> ELSE <<"role", f>>]

\* the table of get_response_stream: the game_wiki text asks for an answer
\* format of ten points
role_descriptions_get_response_stream ==
    [f \in {"play", "game_guide", "doc_qa", "game_wiki"} |->
        IF f = "game_wiki" THEN <<"role", f, "format of 10 points">> ELSE <<"role", f>>]

\* the table init_system puts into the dict it returns
role_descriptions_init_system ==
    [f \in {"play", "game_guide", "doc_qa", "game_wiki"} |->
        IF f = "game_wiki" THEN <<"role", f, "format of 10 points">> ELSE <<"role", f>>]

GeneralRoleDescription == <<"role", "general">>

\* a lookup without the general default
RoleDescriptionNoDefault(function) ==
    IF function \in DOMAIN role_descriptions_get_response
    THEN role_descriptions_get_response[function]
    ELSE <<>>

\* role_descriptions.get(function, <general description>)
RoleDescriptionFor(function) ==
    IF function \in DOMAIN role_descriptions_get_response
    THEN role_descriptions_get_response[function]
    ELSE GeneralRoleDescription

\* role_descriptions.get(function, <general description>) of get_response_stream
RoleDescriptionForStream(function) ==
    IF function \in DOMAIN role_descriptions_get_response_stream
    THEN role_descriptions_get_response_stream[function]
    ELSE GeneralRoleDescription

\* the number of turns of the history the prompt is given
HistoryWindow == 10

\* chat_history[-k:]
LastTurns(chat_history, k) ==
    IF Len(chat_history) <= k THEN chat_history
    ELSE SubSeq(chat_history, Len(chat_history) - k + 1, Len(chat_history))

\* a history text made of every turn supplied
history_text_unwindowed(chat_history) ==
    [i \in 1..Len(chat_history) |->
        <<IF chat_history[i].role = "user" THEN "Human" ELSE "AI assistant",
          chat_history[i].content>>]

\* history_text of get_response: a line "<speaker>: <content>" for each of
\* the turns kept, one after the other; the text is the sequence of its lines
history_text_get_response(chat_history) ==
    LET recent == LastTurns(chat_history, HistoryWindow) IN
    [i \in 1..Len(recent) |->
        <<IF recent[i].role = "user" THEN "Human" ELSE "AI assistant", recent[i].content>>]

\* history_text of get_response_stream
history_text_get_response_stream(chat_history) ==
    LET recent == LastTurns(chat_history, HistoryWindow) IN
    [i \in 1..Len(recent) |->
        <<IF recent[i].role = "user" THEN "Human" ELSE "AI assistant", recent[i].content>>]

\* a handler that compares the message as it was sent
NoStrip(m) == m

\* str.strip() of a sequence of characters
RECURSIVE LStrip(_)
LStrip(m) == IF m # <<>> /\ Head(m) = " " THEN LStrip(Tail(m)) ELSE m

RECURSIVE RStrip(_)
RStrip(m) == IF m # <<>> /\ m[Len(m)] = " " THEN RStrip(SubSeq(m, 1, Len(m) - 1)) ELSE m

Strip(m) == RStrip(LStrip(m))

\* a doc-QA invoke whose exception is not caught
doc_qa_chain_invoke_uncaught(chain, out) ==
    IF chain = "empty"
    THEN EmptyDocQAChain_invoke
    ELSE IF out.fails
    THEN [type |-> "raised"]
    ELSE [type |-> "str", text |-> Concat(out.chunks)]

\* the doc_qa branch of get_response: doc_qa_chain.invoke(...) inside
\* try / except Exception, the result returned as it is
doc_qa_chain_invoke(chain, out) ==
    IF chain = "empty"
    THEN EmptyDocQAChain_invoke
    ELSE IF out.fails
    THEN [type |-> "str", text |-> DocErrorMessage]
    ELSE [type |-> "str", text |-> Concat(out.chunks)]

\* get_response(message, system, function, user_id, chat_history): the value
\* returned, with what the call did.  ctx is the retrieval result and out the
\* completion model's behaviour, used only where the code reaches them.
get_response(d, message, function, user_id, health, open, ctx, out) ==
    IF function = "doc_qa"
    THEN LET q == init_doc_qa_system(d, user_id, health, open) IN
         IF q.chain = "empty"
         THEN [d |-> q.d, value |-> doc_qa_chain_invoke(q.chain, out), chain |-> "empty",
               llm_invoked |-> FALSE, failed |-> FALSE, role |-> <<>>, context |-> {}]
         ELSE [d |-> q.d, value |-> doc_qa_chain_invoke(q.chain, out), chain |-> "lcel",
               llm_invoked |-> TRUE, failed |-> out.fails, role |-> <<>>, context |-> ctx]
    ELSE IF out.fails
    THEN [d |-> d, value |-> [type |-> "str", text |-> SystemErrorMessage],
          chain |-> "general", llm_invoked |-> TRUE, failed |-> TRUE,
          role |-> RoleDescriptionFor(function), context |-> {}]
    ELSE [d |-> d, value |-> [type |-> "str", text |-> Strip(Concat(out.chunks))],
          chain |-> "general", llm_invoked |-> TRUE, failed |-> FALSE,
          role |-> RoleDescriptionFor(function), context |-> {}]

-----------------------------------------------------------------------------
(* llm_chain.py: the memory registry *)

\* memory_by_user_and_function: user id -> function type -> memory object.
\* A memory object is [id, hist]: its identity and its list of turns.
init_memory(id) == [id |-> id, hist |-> <<>>]

\* a get-or-create that makes a new memory object at every call
get_memory_always_new(mem, id, function_type, user_id) ==
    [v \in DOMAIN mem \cup {user_id} |->
        [g \in (IF v \in DOMAIN mem THEN DOMAIN mem[v] ELSE {})
                 \cup (IF v = user_id THEN {function_type} ELSE {}) |->
            IF v = user_id /\ g = function_type THEN init_memory(id) ELSE mem[v][g]]]

\* get_memory_for_function(function_type, user_id): the registry afterwards
get_memory_for_function(mem, id, function_type, user_id) ==
    LET mem1 == IF user_id \notin DOMAIN mem
                THEN [v \in DOMAIN mem \cup {user_id} |->
                        IF v = user_id THEN <<>> ELSE mem[v]]
                ELSE mem
    IN  IF function_type \notin DOMAIN mem1[user_id]
        THEN [mem1 EXCEPT ![user_id] =
                [g \in DOMAIN mem1[user_id] \cup {function_type} |->
                    IF g = function_type THEN init_memory(id) ELSE mem1[user_id][g]]]
        ELSE mem1

\* a clear that goes through get-or-create: it makes the entry it empties
clear_memory_creating(mem, function_type, user_id) ==
    [v \in DOMAIN mem \cup {user_id} |->
        [g \in (IF v \in DOMAIN mem THEN DOMAIN mem[v] ELSE {})
                 \cup (IF v = user_id THEN {function_type} ELSE {}) |->
            IF v = user_id /\ g = function_type
            THEN init_memory(IF v \in DOMAIN mem /\ g \in DOMAIN mem[v]
                             THEN mem[v][g].id ELSE 0)
            ELSE mem[v][g]]]

\* a clear that empties every history of the user
clear_memory_all_functions(mem, function_type, user_id) ==
    IF user_id \in DOMAIN mem
    THEN [mem EXCEPT ![user_id] = [g \in DOMAIN mem[user_id] |-> [mem[user_id][g] EXCEPT !.hist = <<>>]]]
    ELSE mem

\* the memory part of clear_memory_for_function(function_type, user_id)
clear_memory_for_function(mem, function_type, user_id) ==
    IF user_id \in DOMAIN mem /\ function_type \in DOMAIN mem[user_id]
    THEN [mem EXCEPT ![user_id][function_type].hist = <<>>]
    ELSE mem

\* a clear that drops the whole registry
clear_every_user(mem, user_id) == <<>>

\* a clear of all memories that empties them and keeps the user's entry
clear_keeping_entry(mem, user_id) ==
    [v \in DOMAIN mem |->
        IF v = user_id THEN [g \in DOMAIN mem[v] |-> init_memory(mem[v][g].id)]
        ELSE mem[v]]

\* clear_all_user_memories(user_id)
clear_all_user_memories(mem, user_id) ==
    [v \in DOMAIN mem \ {user_id} |-> mem[v]]

\* get_active_users_count()
get_active_users_count(mem) == Cardinality(DOMAIN mem)

\* the dict init_system(function_type) returns: the LLM, the role
\* descriptions and the function type, and no memory
init_system(function_type) ==
    [llm |-> "llm", role_descriptions |-> role_descriptions_init_system,
     function_type |-> function_type]

\* the user id clear_memory and the older endpoints fall back to
DefaultUser == <<"default">>

\* clear_memory(system, function_type=None, user_id=None); "none" stands for
\* an argument left out.  The whole body runs in a try whose handler logs
\* the exception and returns.  memory_cleared and documents_cleared tell
\* whether the memory clear of the chosen branch and clear_all_document_data
\* were carried out.
clear_memory(mem, d, system, function_type, user_id, plan) ==
    LET docs == clear_all_document_data(d, plan)
        \* if function_type is None or function_type == "doc_qa"
        d2   == IF function_type \in {"none", "doc_qa"} THEN docs.d ELSE d
    IN
    IF function_type # "none" /\ user_id # "none"
    THEN [mem |-> clear_memory_for_function(mem, function_type, user_id), d |-> d2,
          memory_cleared |-> TRUE, documents_cleared |-> function_type = "doc_qa"]
    ELSE IF user_id # "none"
    THEN [mem |-> clear_all_user_memories(mem, user_id), d |-> d2,
          memory_cleared |-> TRUE, documents_cleared |-> TRUE]
    ELSE IF function_type # "none"
    THEN [mem |-> clear_memory_for_function(mem, function_type, DefaultUser), d |-> d2,
          memory_cleared |-> TRUE, documents_cleared |-> function_type = "doc_qa"]
    ELSE IF "memory" \in DOMAIN system
    THEN [mem |-> mem, d |-> d2,
          memory_cleared |-> TRUE, documents_cleared |-> TRUE]
    ELSE \* system["memory"] raises KeyError: logged, nothing else is done
         [mem |-> mem, d |-> d,
          memory_cleared |-> FALSE, documents_cleared |-> FALSE]

-----------------------------------------------------------------------------
(* main.py *)

valid_functions == {"general", "play", "game_guide", "doc_qa", "game_wiki"}

\* a get_system_for_function without the cache look-up: init_system is called
\* on every request
get_system_uncached(systems, function_type, created) ==
    LET ft == IF function_type \notin valid_functions THEN "general" ELSE function_type IN
    IF created = "ok"
    THEN [systems |-> systems \cup {ft}, raised |-> FALSE, system |-> ft,
          init_system_called |-> TRUE]
    ELSE [systems |-> systems, raised |-> FALSE, system |-> "general",
          init_system_called |-> TRUE]

\* ApplicationState.get_system_for_function(function_type); created is the
\* outcome of init_system where the code calls it.  A system is named by the
\* function type it was created for.
get_system_for_function(systems, function_type, created) ==
    LET ft == IF function_type \notin valid_functions THEN "general" ELSE function_type IN
    IF ft \in systems
    THEN [systems |-> systems, raised |-> FALSE, system |-> ft, init_system_called |-> FALSE]
    ELSE IF created = "ok"
    THEN [systems |-> systems \cup {ft}, raised |-> FALSE, system |-> ft,
          init_system_called |-> TRUE]
    ELSE IF "general" \in systems
    THEN [systems |-> systems, raised |-> FALSE, system |-> "general",
          init_system_called |-> TRUE]
    ELSE [systems |-> systems, raised |-> TRUE, system |-> "none", init_system_called |-> TRUE]

\* an error path that leaves the saved file where it is
KeepSavedFile(d, user_id, file) == d

\* the file saved by this request is removed when it is still there
RemoveSavedFile(d, user_id, file) ==
    [d EXCEPT !.uploads[UserUploadDir(user_id)].files = @ \ {FileName(file)}]

\* upload_document: the state afterwards and the response
upload_document(d, user_id, file, readable, plan, rmU, health, store) ==
    IF Lower(file.ext) \notin ALLOWED_EXTENSIONS
    THEN [d |-> d, status |-> 400, stage |-> "extension", page_count |-> 0,
          chunk_count |-> 0, embeddings |-> "not_reached", errors |-> {},
          fallback |-> FALSE, loader |-> "not_reached", saved_at_load |-> FALSE]
    ELSE
    LET dir   == UserUploadDir(user_id)
        up1   == makedirs(d.uploads, dir)
        d1    == [d EXCEPT !.uploads = [up1 EXCEPT ![dir].files = @ \cup {FileName(file)}]]
        c     == clear_user_document_data(d1, user_id, plan, rmU)
        docs  == process_uploaded_file(c.d, user_id, file, readable)
        split == split_documents(file)
        ivs   == init_vector_store(c.d, split, user_id, health, store)
        \* os.path.exists(file_path) when process_uploaded_file(file_path) is called
        saved == PathExists(c.d.uploads, dir) /\ FileName(file) \in c.d.uploads[dir].files
    IN  IF docs.raised
        THEN [d |-> RemoveSavedFile(c.d, user_id, file), status |-> 500, stage |-> "load",
              page_count |-> 0, chunk_count |-> 0, embeddings |-> "not_reached",
              errors |-> c.errors, fallback |-> c.fallback,
              loader |-> loader_for(file.ext), saved_at_load |-> saved]
        ELSE IF ivs.raised
        THEN [d |-> RemoveSavedFile(ivs.d, user_id, file), status |-> 500,
              stage |-> "vector_store", page_count |-> 0, chunk_count |-> 0,
              embeddings |-> ivs.embeddings, errors |-> c.errors, fallback |-> c.fallback,
              loader |-> loader_for(file.ext), saved_at_load |-> saved]
        ELSE [d |-> ivs.d, status |-> 200, stage |-> "done",
              page_count |-> docs.documents, chunk_count |-> Len(split),
              embeddings |-> ivs.embeddings, errors |-> c.errors, fallback |-> c.fallback,
              loader |-> loader_for(file.ext), saved_at_load |-> saved]

\* chat_endpoint: the state afterwards and the response
chat_endpoint(d, systems, user_id, function, msg, created, health, open, ctx, out) ==
    LET message == Strip(msg)
        sys     == get_system_for_function(systems, function, created)
        r       == get_response(d, message, function, user_id, health, open, ctx, out)
    IN  IF message = <<>>
        THEN [d |-> d, systems |-> systems, status |-> 400, response |-> <<>>,
              system |-> "none", chain |-> "none", llm_invoked |-> FALSE,
              failed |-> FALSE, role |-> <<>>, context |-> {}, value |-> [type |-> "none"]]
        ELSE IF sys.raised
        THEN [d |-> d, systems |-> sys.systems, status |-> 500, response |-> <<>>,
              system |-> "none", chain |-> "none", llm_invoked |-> FALSE,
              failed |-> FALSE, role |-> <<>>, context |-> {}, value |-> [type |-> "none"]]
        ELSE IF r.value.type # "str"     \* ChatResponse(response=...) rejects a non-string
        THEN [d |-> r.d, systems |-> sys.systems, status |-> 500, response |-> <<>>,
              system |-> sys.system, chain |-> r.chain, llm_invoked |-> r.llm_invoked,
              failed |-> r.failed, role |-> r.role, context |-> r.context, value |-> r.value]
        ELSE [d |-> r.d, systems |-> sys.systems, status |-> 200, response |-> r.value.text,
              system |-> sys.system, chain |-> r.chain, llm_invoked |-> r.llm_invoked,
              failed |-> r.failed, role |-> r.role, context |-> r.context, value |-> r.value]

\* no streaming response has been started
IdleStream == [pc |-> "idle"]

\* chat_stream_endpoint up to its return: the state afterwards, the status
\* and, for 200, the response stream whose generator has not run yet
chat_stream_endpoint(systems, user_id, function, msg, created) ==
    LET message == Strip(msg)
        sys     == get_system_for_function(systems, function, created)
    IN  IF message = <<>>
        THEN [systems |-> systems, status |-> 400, system |-> "none", stream |-> IdleStream]
        ELSE IF sys.raised
        THEN [systems |-> sys.systems, status |-> 500, system |-> "none", stream |-> IdleStream]
        ELSE [systems |-> sys.systems, status |-> 200, system |-> sys.system,
              stream |-> [pc |-> "open", user |-> user_id, fn |-> function,
                          rest |-> <<>>, fails |-> FALSE, err |-> <<>>,
                          chain |-> "none", llm_invoked |-> FALSE, failed |-> FALSE,
                          events |-> <<>>]]

\* get_response_stream from its first line to the loop over the chain's
\* astream: the chain is chosen (init_doc_qa_system for doc_qa) and its
\* source of increments starts; err is the string the enclosing handler
\* yields when the source raises
get_response_stream_start(d, st, open, out) ==
    IF st.fn = "doc_qa"
    THEN LET q == init_doc_qa_system(d, st.user, "ok", open) IN
         IF q.chain = "empty"
         THEN [d |-> q.d,
               st |-> [st EXCEPT !.pc = "running", !.rest = EmptyDocQAChain_astream,
                                 !.err = DocErrorMessage, !.chain = "empty"]]
         ELSE [d |-> q.d,
               st |-> [st EXCEPT !.pc = "running", !.rest = out.chunks, !.fails = out.fails,
                                 !.err = DocErrorMessage, !.chain = "lcel",
                                 !.llm_invoked = TRUE, !.failed = out.fails]]
    ELSE [d |-> d,
          st |-> [st EXCEPT !.pc = "running", !.rest = out.chunks, !.fails = out.fails,
                            !.err = SystemErrorMessage, !.chain = "general",
                            !.llm_invoked = TRUE, !.failed = out.fails]]

\* the increments left once the empty ones at the front are skipped (if chunk:)
RECURSIVE SkipEmpty(_)
SkipEmpty(chunks) ==
    IF chunks # <<>> /\ Head(chunks) = <<>> THEN SkipEmpty(Tail(chunks)) ELSE chunks

\* get_response_stream resumed up to its next yield or its end: the next
\* non-empty increment; when the source raises, the except clause yields the
\* error string as one more increment; then the generator ends.  It never
\* raises.
get_response_stream_next(st) ==
    LET r == SkipEmpty(st.rest) IN
    IF r # <<>>
    THEN [item |-> [kind |-> "chunk", chunk |-> Head(r)], st |-> [st EXCEPT !.rest = Tail(r)]]
    ELSE IF st.fails
    THEN [item |-> [kind |-> "chunk", chunk |-> st.err],
          st |-> [st EXCEPT !.rest = <<>>, !.fails = FALSE]]
    ELSE [item |-> [kind |-> "end"], st |-> [st EXCEPT !.rest = <<>>]]

\* a generate that does not finish after the done sentinel
generate_keeps_running(item) ==
    IF item.kind = "chunk"
    THEN [event |-> [type |-> "content", content |-> item.chunk], closes |-> FALSE]
    ELSE [event |-> [type |-> "done"], closes |-> FALSE]

\* generate() of chat_stream_endpoint: one SSE event per step; an increment
\* is framed as a content event, the end of the increments as the [DONE]
\* sentinel, an exception out of get_response_stream as an error event
generate(item) ==
    CASE item.kind = "chunk" ->
            [event |-> [type |-> "content", content |-> item.chunk], closes |-> FALSE]
      [] item.kind = "end" ->
            [event |-> [type |-> "done"], closes |-> TRUE]
      [] OTHER ->
            [event |-> [type |-> "error"], closes |-> TRUE]

-----------------------------------------------------------------------------
(* The state machine *)

FunctionInputs == valid_functions \cup {"unknown_value"}

\* the function types whose memories the registry is asked for
MemoryFunctions == {"general", "doc_qa"}

Messages == {<<>>, <<" ">>, <<"q", " ">>}

HealthOutcomes == {"ok", "empty", "raise"}

StoreOutcomes == {"ok", "raise"}

\* with the outcomes the verification of the record count is there for
StoreOutcomesCounted == StoreOutcomes \cup {"no_records", "count_raises"}

Turns == {"t"}

Disk == [chroma |-> chroma, uploads |-> uploads, active |-> active]

SetDisk(d) ==
    /\ chroma' = d.chroma
    /\ uploads' = d.uploads
    /\ active' = d.active

\* The process has started: lifespan ran app_state.initialize(), the base
\* directories exist and are empty, the registries are empty.
Init ==
    /\ chroma = [p \in ChromaPaths |-> AbsentStore]
    /\ uploads = [p \in UploadPaths |-> AbsentUploads]
    /\ active = <<>>
    /\ memory = <<>>
    /\ nextMemId = 1
    /\ llm_systems = {"general"}
    /\ stream = IdleStream
    /\ lastOp = [op |-> "start"]
    \* the single-store variant (src/my-react-app): no chain has been built,
    \* the import of document_processing has made the directory CHROMA_PATH
    /\ doc_qa_chain = "None"
    /\ CHROMA_PATH = [q \in {<<CHROMA_BASE_PATH>>} |-> [AbsentStore EXCEPT !.dir = TRUE]]

\* the rmtree outcomes when nothing goes wrong
QuietPlan == [rm |-> <<"ok">>, fb |-> TRUE]

\* POST /upload.  The environment's answers are drawn only where the handler
\* asks for them; an answer that is never asked for is the good one.
UploadDocumentStores(files, plans, rmUs, stores) ==
    \E u \in UserIds, file \in files :
    \E supported \in {Lower(file.ext) \in ALLOWED_EXTENSIONS} :
    \E plan \in (IF supported THEN plans ELSE {QuietPlan}),
       rmU \in (IF supported THEN rmUs ELSE {"ok"}) :
    \E kept \in {supported /\ rmU # "ok"} :
    \E readable \in (IF kept THEN BOOLEAN ELSE {TRUE}) :
    \E health \in (IF kept /\ readable THEN HealthOutcomes ELSE {"ok"}),
       store \in (IF kept /\ readable THEN stores ELSE {"ok"}) :
    \E r \in {upload_document(Disk, u, file, readable, plan, rmU, health, store)} :
        /\ SetDisk(r.d)
        /\ lastOp' = [op |-> "upload", user |-> u, doc |-> file.doc,
                      quiet |-> (/\ plan = QuietPlan /\ rmU = "ok" /\ readable
                                 /\ health = "ok" /\ store = "ok"),
                      status |-> r.status, stage |-> r.stage,
                      page_count |-> r.page_count, chunk_count |-> r.chunk_count,
                      loader |-> r.loader, saved_at_load |-> r.saved_at_load]
        /\ UNCHANGED <<memory, nextMemId, llm_systems, stream, doc_qa_chain, CHROMA_PATH>>

\* uploads whose Chroma.from_documents returns a store with the records or raises
UploadDocumentWith(files, plans, rmUs) == UploadDocumentStores(files, plans, rmUs, StoreOutcomes)

UploadDocument == UploadDocumentWith(Files, RmPlansBrief, {"ok", "oserror"})

\* the message sent is empty or made of white space only
IsBlank(msg) == \A i \in DOMAIN msg : msg[i] = " "

\* POST /app for the function types fns
ChatEndpointFor(fns) ==
    \E u \in UserIds, fn \in fns, msg \in Messages :
    \E asked \in {Strip(msg) # <<>>} :
    \E cached \in {(IF fn \in valid_functions THEN fn ELSE "general") \in llm_systems} :
    \E created \in (IF asked /\ ~cached THEN {"ok", "raise"} ELSE {"ok"}) :
    \E lcel \in {/\ asked
                 /\ fn = "doc_qa"
                 /\ init_doc_qa_system(Disk, u, "ok", "ok").chain = "lcel"} :
    \* init_embeddings never raises, so the health check's answer does not
    \* change what init_doc_qa_system does: one answer stands for all
    \E health \in {"ok"},
       open \in (IF lcel THEN {"ok", "raise"} ELSE {"ok"}) :
    \E out \in (IF asked /\ (fn # "doc_qa" \/ (lcel /\ open = "ok")) THEN LLMAnswers
                ELSE {CHOOSE o \in LLMAnswers : ~o.fails}) :
    \E ctx \in (IF lcel /\ open = "ok" THEN Retrievals(chroma[UserChromaPath(u)].recs)
                ELSE {{}}) :
    \E r \in {chat_endpoint(Disk, llm_systems, u, fn, msg, created, health, open, ctx, out)} :
        /\ SetDisk(r.d)
        /\ llm_systems' = r.systems
        /\ lastOp' = IF fn = "doc_qa"
                     THEN [op |-> "chat", user |-> u, fn |-> fn, status |-> r.status,
                           blank |-> IsBlank(msg), chain |-> r.chain,
                           llm_invoked |-> r.llm_invoked, failed |-> r.failed,
                           docs |-> {c.doc : c \in r.context}, value |-> r.value]
                     ELSE [op |-> "chat", user |-> u, fn |-> fn, status |-> r.status,
                           blank |-> IsBlank(msg), system |-> r.system,
                           llm_invoked |-> r.llm_invoked, failed |-> r.failed,
                           role |-> r.role, value |-> r.value]
        /\ UNCHANGED <<memory, nextMemId, stream, doc_qa_chain, CHROMA_PATH>>

DocQAChat == ChatEndpointFor({"doc_qa"})

ChatEndpoint == ChatEndpointFor(FunctionInputs \ {"doc_qa"})

\* POST /memory/clear?function_type=..&user_id=.. for the function types fns
ClearMemoryEndpointFor(fns) ==
    \E u \in UserIds, function_type \in fns :
    \E fn \in {IF function_type = "current" THEN "general" ELSE function_type} :
    \E plan \in (IF fn = "doc_qa" THEN RmPlansBrief ELSE {QuietPlan}),
       rmU \in (IF fn = "doc_qa" THEN {"ok", "oserror"} ELSE {"ok"}) :
    \E c \in {clear_user_document_data(Disk, u, plan, rmU)} :
        /\ memory' = clear_memory_for_function(memory, fn, u)
        /\ IF fn = "doc_qa" THEN SetDisk(c.d) ELSE UNCHANGED <<chroma, uploads, active>>
        /\ lastOp' = [op |-> "clear", user |-> u, fn |-> fn, status |-> 200]
        /\ UNCHANGED <<nextMemId, llm_systems, stream, doc_qa_chain, CHROMA_PATH>>

ClearDocQA == ClearMemoryEndpointFor({"doc_qa"})

ClearMemoryEndpoint == ClearMemoryEndpointFor(MemoryFunctions \cup {"current"})

\* POST /memory/clear_user/{user_id}
ClearUserMemoryEndpoint ==
    \E u \in UserIds :
        /\ memory' = clear_all_user_memories(memory, u)
        /\ lastOp' = [op |-> "clear_user", user |-> u, status |-> 200]
        /\ UNCHANGED <<chroma, uploads, active, nextMemId, llm_systems, stream,
                       doc_qa_chain, CHROMA_PATH>>

\* get_memory_for_function called by a holder of the registry
GetMemory ==
    \E u \in UserIds, fn \in MemoryFunctions :
    \E creates \in {u \notin DOMAIN memory \/ fn \notin DOMAIN memory[u]} :
        /\ creates => nextMemId <= MaxMemObjects
        /\ memory' = get_memory_for_function(memory, nextMemId, fn, u)
        /\ nextMemId' = IF creates THEN nextMemId + 1 ELSE nextMemId
        /\ lastOp' = [op |-> "get_memory", user |-> u, fn |-> fn]
        /\ UNCHANGED <<chroma, uploads, active, llm_systems, stream, doc_qa_chain, CHROMA_PATH>>

\* the holder of a memory object records a turn in it (save_context)
SaveContext ==
    \E u \in DOMAIN memory :
    \E fn \in DOMAIN memory[u], t \in Turns :
        /\ Len(memory[u][fn].hist) < MaxHist
        /\ memory' = [memory EXCEPT ![u][fn].hist = Append(@, t)]
        /\ lastOp' = [op |-> "save_context", user |-> u, fn |-> fn]
        /\ UNCHANGED <<chroma, uploads, active, nextMemId, llm_systems, stream,
                       doc_qa_chain, CHROMA_PATH>>

\* the handles tracked for user_id
TrackedHandles(act, user_id) == IF user_id \in DOMAIN act THEN act[user_id] ELSE <<>>

\* POST /memory/clear?function_type=doc_qa for every course the deletion of
\* the vector store can take, with what clear_user_vector_store did
ClearDocQATraced ==
    \E u \in UserIds, plan \in RmPlans, rmU \in {"ok", "oserror"} :
    \E close \in (IF u \in DOMAIN active THEN {"ok", "raise"} ELSE {"ok"}) :
    \E r1 \in {clear_user_vector_store(Disk, u, plan)} :
    \E c \in {clear_user_document_data(Disk, u, plan, rmU)} :
        /\ memory' = clear_memory_for_function(memory, "doc_qa", u)
        /\ SetDisk(c.d)
        /\ lastOp' = [op |-> "clear_store", user |-> u, rm |-> plan.rm,
                      handles |-> Len(TrackedHandles(active, u)),
                      raised |-> r1.raised, attempts |-> r1.attempts,
                      sleeps |-> r1.sleeps, fallback |-> r1.fallback,
                      steps |-> clear_user_vector_store_steps(active, u, plan, close),
                      status |-> 200]
        /\ UNCHANGED <<nextMemId, llm_systems, stream, doc_qa_chain, CHROMA_PATH>>

\* POST /documents/clear
ClearDocuments ==
    \E plan \in RmPlans :
    \E c \in {clear_all_document_data(Disk, plan)} :
        /\ SetDisk(c.d)
        /\ lastOp' = [op |-> "clear_documents", rm |-> plan.rm,
                      status |-> IF c.raised THEN 500 ELSE 200]
        /\ UNCHANGED <<memory, nextMemId, llm_systems, stream, doc_qa_chain, CHROMA_PATH>>

\* uploads of two documents; the saved file is not deleted by the clear
UploadForClear == UploadDocumentWith({FileA, FileB}, RmPlansBrief, {"oserror"})

\* POST /memory/clear of the single-user main.py: "current" hands the
\* general system to clear_memory with no function type and no user id, any
\* other function type is cleared for the default user
ClearMemoryCurrent ==
    \E function_type \in {"current", "general"}, plan \in RmPlansBrief :
    \E sys \in {get_system_for_function(llm_systems, "general", "ok")} :
    \E r \in {IF function_type = "current"
               THEN clear_memory(memory, Disk, init_system(sys.system), "none", "none", plan)
               ELSE [mem |-> clear_memory_for_function(memory, function_type, DefaultUser),
                     d |-> Disk, memory_cleared |-> TRUE, documents_cleared |-> FALSE]} :
        /\ memory' = r.mem
        /\ SetDisk(r.d)
        /\ llm_systems' = IF function_type = "current" THEN sys.systems ELSE llm_systems
        /\ lastOp' = [op |-> "clear_memory", fn |-> function_type, user |-> DefaultUser,
                      status |-> 200, memory_cleared |-> r.memory_cleared,
                      documents_cleared |-> r.documents_cleared]
        /\ UNCHANGED <<nextMemId, stream, doc_qa_chain, CHROMA_PATH>>

\* POST /app with function doc_qa and a question: the request, with the
\* list the retriever returned and the context the prompt was filled with
DocQAChatContext ==
    \E u \in UserIds, question \in {"first", "last"} :
    \E lcel \in {init_doc_qa_system(Disk, u, "ok", "ok").chain = "lcel"} :
    \E open \in (IF lcel THEN {"ok", "raise"} ELSE {"ok"}) :
    \E out \in (IF lcel /\ open = "ok" THEN LLMAnswers
                ELSE {CHOOSE o \in LLMAnswers : ~o.fails}) :
    \E ctx \in (IF lcel /\ open = "ok" THEN Retrievals(chroma[UserChromaPath(u)].recs)
                ELSE {{}}) :
    \E r \in {chat_endpoint(Disk, llm_systems, u, "doc_qa", <<"q">>, "ok", "ok", open, ctx, out)} :
        /\ SetDisk(r.d)
        /\ llm_systems' = r.systems
        /\ lastOp' = [op |-> "chat", user |-> u, fn |-> "doc_qa", status |-> r.status,
                      blank |-> FALSE, chain |-> r.chain, llm_invoked |-> r.llm_invoked,
                      retrieved |-> Ranked(r.context, question),
                      context |-> format_docs(Ranked(r.context, question))]
        /\ UNCHANGED <<memory, nextMemId, stream, doc_qa_chain, CHROMA_PATH>>

\* process_uploaded_file on a .txt file, for every way the loads can go
LoadTextFile ==
    \E outcomes \in [{encodings[i] : i \in DOMAIN encodings} -> LoadOutcomes] :
    \E r \in {load_text_file(outcomes, 1)} :
        /\ lastOp' = [op |-> "load_text", outcomes |-> outcomes, raised |-> r.raised,
                      encoding |-> r.encoding, tried |-> r.tried]
        /\ UNCHANGED <<chroma, uploads, active, memory, nextMemId, llm_systems, stream,
                       doc_qa_chain, CHROMA_PATH>>

\* the lengths of the chunk texts handed to the summary
ChunkLengths == {1, 166, 250, chunk_size}

\* upload_document builds the summary of the chunks the splitter returned
GenerateSummary ==
    \E n \in 0 .. MaxSummaryChunks :
    \E lens \in [1 .. n -> ChunkLengths] :
    \E r \in {generate_document_summary([i \in 1 .. n |-> PageContent(lens[i])])} :
        /\ lastOp' = [op |-> "summary", lengths |-> lens, summary |-> r]
        /\ UNCHANGED <<chroma, uploads, active, memory, nextMemId, llm_systems, stream,
                       doc_qa_chain, CHROMA_PATH>>

\* the function types asked for over the streaming endpoint
StreamFunctions == {"doc_qa", "general"}

\* POST /app/stream up to the return of the StreamingResponse; one response
\* stream is followed at a time
ChatStreamEndpoint ==
    /\ stream.pc \in {"idle", "closed"}
    /\ \E u \in UserIds, fn \in StreamFunctions, msg \in Messages :
       \E asked \in {Strip(msg) # <<>>} :
       \E cached \in {fn \in llm_systems} :
       \E created \in (IF asked /\ ~cached THEN {"ok", "raise"} ELSE {"ok"}) :
       \E r \in {chat_stream_endpoint(llm_systems, u, fn, msg, created)} :
          /\ llm_systems' = r.systems
          /\ stream' = IF r.status = 200 THEN r.stream ELSE stream
          /\ lastOp' = [op |-> "stream", user |-> u, fn |-> fn, blank |-> IsBlank(msg),
                        status |-> r.status, system |-> r.system]
          /\ UNCHANGED <<chroma, uploads, active, memory, nextMemId, doc_qa_chain, CHROMA_PATH>>

\* the server pulls the next event out of generate(): on the first pull
\* get_response_stream starts, then it runs to its next yield
StreamStep ==
    /\ stream.pc \in {"open", "running"}
    /\ \E lcel \in {/\ stream.pc = "open"
                    /\ stream.fn = "doc_qa"
                    /\ init_doc_qa_system(Disk, stream.user, "ok", "ok").chain = "lcel"} :
       \E open \in (IF lcel THEN {"ok", "raise"} ELSE {"ok"}) :
       \E out \in (IF stream.pc = "open" /\ (stream.fn # "doc_qa" \/ (lcel /\ open = "ok"))
                   THEN LLMOutputs ELSE {CHOOSE o \in LLMOutputs : ~o.fails}) :
       \E s0 \in {IF stream.pc = "open"
                  THEN get_response_stream_start(Disk, stream, open, out)
                  ELSE [d |-> Disk, st |-> stream]} :
       \E n \in {get_response_stream_next(s0.st)} :
       \E g \in {generate(n.item)} :
          /\ SetDisk(s0.d)
          /\ stream' = [n.st EXCEPT !.events = Append(@, g.event),
                                    !.pc = IF g.closes THEN "closed" ELSE "running"]
          /\ lastOp' = [op |-> "stream_step", user |-> stream.user, fn |-> stream.fn]
          /\ UNCHANGED <<memory, nextMemId, llm_systems, doc_qa_chain, CHROMA_PATH>>

\* an upload that goes through: the deletions of the old vector store
\* succeed and the upload directory with the file just saved is not deleted
UploadKept == UploadDocumentWith({FileB}, {QuietPlan}, {"oserror"})

\* uploads of files whose extension is in any case
UploadAnyCase == UploadDocumentWith(FilesAnyCase, RmPlansBrief, {"ok", "oserror"})

\* uploads of files with blank chunks; the saved file is not deleted by the
\* clear, the deletion of the old vector store goes every way
UploadWithBlanks == UploadDocumentWith(FilesWithBlanks, RmPlansBrief, {"oserror"})

\* uploads with every outcome of the insertion and of the count
UploadCounted ==
    UploadDocumentStores({FileA, FileB}, RmPlansBrief, {"oserror"}, StoreOutcomesCounted)

\* POST /app for the function types the streaming endpoint is asked for
ChatForStreamFunctions == ChatEndpointFor(StreamFunctions)

\* the chat_history lists of the requests: turn i has the content i, and the
\* roles of the turns follow a pattern repeated along the history
Histories ==
    {[i \in 1..n |-> [role |-> p[(i % Len(p)) + 1], content |-> i]] :
        n \in 0..MaxTurns,
        p \in {<<"user", "assistant">>, <<"system", "user", "user">>, <<"assistant">>}}

\* the prompt inputs get_response and get_response_stream build for the same
\* request, and the role descriptions init_system returns
BuildPrompt ==
    \E fn \in FunctionInputs, chat_history \in Histories :
        /\ lastOp' = [op |-> "prompt", fn |-> fn, chat_history |-> chat_history,
                      role |-> RoleDescriptionFor(fn),
                      role_stream |-> RoleDescriptionForStream(fn),
                      roles_init |-> init_system(fn).role_descriptions,
                      history_text |-> history_text_get_response(chat_history),
                      history_text_stream |-> history_text_get_response_stream(chat_history)]
        /\ UNCHANGED <<chroma, uploads, active, memory, nextMemId, llm_systems, stream,
                       doc_qa_chain, CHROMA_PATH>>

SpecPrompt == Init /\ [][BuildPrompt]_vars

\* app_state.get_system_for_function(function_type), as the chat endpoints
\* call it; init_system succeeds or raises
GetSystemForFunction ==
    \E fn \in FunctionInputs, created \in {"ok", "raise"} :
    \E r \in {get_system_for_function(llm_systems, fn, created)} :
        /\ ~r.raised
        /\ llm_systems' = r.systems
        /\ lastOp' = [op |-> "get_system", fn |-> fn, system |-> r.system,
                      init_system_called |-> r.init_system_called,
                      created |-> IF r.init_system_called THEN created ELSE "not_asked"]
        /\ UNCHANGED <<chroma, uploads, active, memory, nextMemId, stream,
                       doc_qa_chain, CHROMA_PATH>>

SpecSystems == Init /\ [][GetSystemForFunction]_vars

\* clear_memory(system, function_type, user_id) for a user and a function
\* type, with the system of that function type
ClearMemoryOfUser ==
    \E u \in UserIds, function_type \in MemoryFunctions, plan \in RmPlansBrief :
    \E r \in {clear_memory(memory, Disk, init_system(function_type), function_type, u, plan)} :
        /\ memory' = r.mem
        /\ SetDisk(r.d)
        /\ lastOp' = [op |-> "clear_memory", fn |-> function_type, user |-> u,
                      status |-> 200, memory_cleared |-> r.memory_cleared,
                      documents_cleared |-> r.documents_cleared]
        /\ UNCHANGED <<nextMemId, llm_systems, stream, doc_qa_chain, CHROMA_PATH>>

\* uploads that go through and clear_memory for one user
SpecClearUser == Init /\ [][UploadKept \/ ClearMemoryOfUser]_vars

\* The single-store variant: src/my-react-app/llm_chain.py, main.py and
\* document_processing.py, with one vector store and one process-wide chain.

\* init_doc_qa_system(llm) of the single-store variant: the chain built
\* first is kept in the global doc_qa_chain and returned from then on; fs is
\* the directory CHROMA_PATH, open the outcome of init_embeddings and Chroma(...)
init_doc_qa_system_single(chain, fs, open) ==
    IF chain # "None" THEN chain
    ELSE IF ~PathExists(fs, <<CHROMA_BASE_PATH>>) \/ ~ListdirNonEmpty(fs, <<CHROMA_BASE_PATH>>)
    THEN "empty"
    ELSE IF open = "raise" THEN "empty"
    ELSE "lcel"

\* clear_vector_store() of the single-store variant: the retry loop on
\* CHROMA_PATH, then the directory is made again; an error is logged and
\* not raised
clear_vector_store(fs, plan) ==
    IF PathExists(fs, <<CHROMA_BASE_PATH>>)
    THEN LET loop == RmtreeLoop(fs, <<CHROMA_BASE_PATH>>, plan, 0) IN
         IF loop.raised THEN loop.fs ELSE makedirs(loop.fs, <<CHROMA_BASE_PATH>>)
    ELSE makedirs(fs, <<CHROMA_BASE_PATH>>)

\* POST /upload of the single-store variant: the store is cleared, the file
\* is loaded and split, and init_vector_store inserts its non-blank chunks
SingleStoreUpload ==
    \E file \in {FileA} \cup FilesWithBlanks, plan \in RmPlansBrief, readable \in BOOLEAN :
    \E valid \in {valid_docs(split_documents(file))} :
    \E store \in (IF readable /\ valid # <<>> THEN StoreOutcomes ELSE {"ok"}) :
    \E fs1 \in {clear_vector_store(CHROMA_PATH, plan)} :
    \E fs2 \in {makedirs(fs1, <<CHROMA_BASE_PATH>>)} :
        /\ CHROMA_PATH' =
              IF ~readable \/ valid = <<>> THEN fs1
              ELSE IF store = "raise"
              THEN [fs2 EXCEPT ![<<CHROMA_BASE_PATH>>].db = TRUE]
              ELSE [fs2 EXCEPT ![<<CHROMA_BASE_PATH>>].db = TRUE,
                               ![<<CHROMA_BASE_PATH>>].recs =
                                    @ \cup {valid[i] : i \in 1..Len(valid)}]
        /\ lastOp' = [op |-> "single_upload", doc |-> file.doc,
                      status |-> IF readable /\ valid # <<>> /\ store = "ok"
                                 THEN 200 ELSE 500]
        /\ UNCHANGED <<chroma, uploads, active, memory, nextMemId, llm_systems, stream,
                       doc_qa_chain>>

\* POST /app with function doc_qa of the single-store variant: get_response
\* asks init_doc_qa_system for the chain and invokes it
SingleStoreDocQA ==
    \E built \in {doc_qa_chain # "None"} :
    \E open \in (IF ~built /\ ListdirNonEmpty(CHROMA_PATH, <<CHROMA_BASE_PATH>>)
                  THEN {"ok", "raise"} ELSE {"ok"}) :
    \E chain \in {init_doc_qa_system_single(doc_qa_chain, CHROMA_PATH, open)} :
    \E out \in (IF chain = "lcel" THEN LLMAnswers ELSE {CHOOSE o \in LLMAnswers : ~o.fails}) :
        /\ doc_qa_chain' = chain
        /\ lastOp' = [op |-> "single_doc_qa", chain |-> chain, open |-> open,
                      indexed |-> CHROMA_PATH[<<CHROMA_BASE_PATH>>].recs # {},
                      store_files |-> ListdirNonEmpty(CHROMA_PATH, <<CHROMA_BASE_PATH>>),
                      response |-> IF chain = "empty" THEN "fallback"
                                   ELSE IF out.fails THEN "error" ELSE "answer"]
        /\ UNCHANGED <<chroma, uploads, active, memory, nextMemId, llm_systems, stream,
                       CHROMA_PATH>>

\* POST /documents/clear of the single-store variant: clear_all_document_data()
SingleStoreClearDocuments ==
    \E plan \in RmPlansBrief :
        /\ CHROMA_PATH' = clear_vector_store(CHROMA_PATH, plan)
        /\ lastOp' = [op |-> "single_clear", rm |-> plan.rm]
        /\ UNCHANGED <<chroma, uploads, active, memory, nextMemId, llm_systems, stream,
                       doc_qa_chain>>

SpecSingleStore ==
    Init /\ [][SingleStoreUpload \/ SingleStoreDocQA \/ SingleStoreClearDocuments]_vars

\* streaming responses with uploads and per-user clears of the doc-QA data
\* running between the steps of a response
SpecInterleave == Init /\ [][ChatStreamEndpoint \/ StreamStep \/ UploadKept \/ ClearDocQA]_vars

\* the document pipeline: uploads, doc-QA questions and doc-QA clears
Next ==
    \/ UploadDocument
    \/ DocQAChat
    \/ ClearDocQA

Spec == Init /\ [][Next]_vars

\* the memory registry and the endpoints that clear it
NextMemory ==
    \/ GetMemory
    \/ SaveContext
    \/ ClearMemoryEndpoint
    \/ ClearUserMemoryEndpoint

SpecMemory == Init /\ [][NextMemory]_vars

\* chat requests of every function type but doc_qa
NextChat == ChatEndpoint

SpecChat == Init /\ [][NextChat]_vars

\* uploads that go through and clears of the doc-QA data
NextClear ==
    \/ UploadKept
    \/ ClearDocQATraced

SpecClear == Init /\ [][NextClear]_vars

\* rebuilds of the vector store from files with blank chunks
NextRebuild == UploadWithBlanks

SpecRebuild == Init /\ [][NextRebuild]_vars

\* rebuilds of the vector store with the verification of the record count
NextCount == UploadCounted

SpecCount == Init /\ [][NextCount]_vars

\* uploads and clears of all document data
NextClearAll ==
    \/ UploadForClear
    \/ ClearDocuments

SpecClearAll == Init /\ [][NextClearAll]_vars

\* uploads, memories and the clear of the current memory
NextClearCurrent ==
    \/ UploadKept
    \/ GetMemory
    \/ SaveContext
    \/ ClearMemoryCurrent

SpecClearCurrent == Init /\ [][NextClearCurrent]_vars

\* uploads and doc-QA questions with their contexts
NextContext ==
    \/ UploadForClear
    \/ DocQAChatContext

SpecContext == Init /\ [][NextContext]_vars

\* loads of plain-text files
NextLoad == LoadTextFile

SpecLoad == Init /\ [][NextLoad]_vars

\* summaries of split documents
NextSummary == GenerateSummary

SpecSummary == Init /\ [][NextSummary]_vars

\* uploads alone, of every kind of file
NextUpload == UploadAnyCase

SpecUpload == Init /\ [][NextUpload]_vars

\* the events of the response stream sent so far
Events == IF stream.pc = "idle" THEN <<>> ELSE stream.events

\* the streaming and the non-streaming chat endpoint, with uploads
NextStream ==
    \/ ChatStreamEndpoint
    \/ StreamStep
    \/ ChatForStreamFunctions
    \/ UploadKept

SpecStream == Init /\ [][NextStream]_vars

\* the server keeps pulling events until generate() returns
SpecStreamFair == SpecStream /\ WF_vars(StreamStep)

-----------------------------------------------------------------------------
(* State functions used by the properties *)

\* the documents whose chunks the retriever of user_id can return
DocsOf(fs, user_id) == {c.doc : c \in fs[UserChromaPath(user_id)].recs}

\* the namespace directory of user_id is absent or empty
NamespaceEmpty(fs, user_id) ==
    ~PathExists(fs, UserChromaPath(user_id)) \/ ~ListdirNonEmpty(fs, UserChromaPath(user_id))

\* the memory entry of (user_id, function_type): the object and its history
MemEntry(mem, user_id, function_type) ==
    IF user_id \in DOMAIN mem /\ function_type \in DOMAIN mem[user_id]
    THEN mem[user_id][function_type]
    ELSE [id |-> 0, hist |-> <<>>]

FileOfDoc(doc) == CHOOSE f \in FilesAnyCase \cup FilesWithBlanks : f.doc = doc

\* the file saved by an upload of user_id is in their upload directory
SavedFileOnDisk(fs, user_id, file) ==
    /\ PathExists(fs, UserUploadDir(user_id))
    /\ FileName(file) \in fs[UserUploadDir(user_id)].files

FallbackResponse == [type |-> "str", text |-> EmptyInvokeAnswer]

-----------------------------------------------------------------------------
(* Properties *)

\* C1: at every reachable state a user's namespace holds chunks of at most
\* one document, and after a successful upload of document B by user U only
\* B's chunks are retrievable for U (an upload replaces, never appends),
\* whatever the directory deletion of the clear ran into.
C1_RebuildReplaces ==
    /\ \A u \in UserIds : Cardinality(DocsOf(chroma, u)) <= 1
    /\ (lastOp.op = "upload" /\ lastOp.status = 200)
          => DocsOf(chroma, lastOp.user) = {lastOp.doc}

\* C2: an upload by user U, successful or not, leaves the stored chunks, the
\* uploaded files and the tracked handles of every other user unchanged.
C2_UploadLeavesOthers ==
    [][lastOp'.op = "upload" =>
         \A u2 \in UserIds \ {lastOp'.user} :
            /\ chroma'[UserChromaPath(u2)].recs = chroma[UserChromaPath(u2)].recs
            /\ uploads'[UserUploadDir(u2)].files = uploads[UserUploadDir(u2)].files
            /\ TrackedHandles(active', u2) = TrackedHandles(active, u2)]_vars

\* C3: for two distinct user ids the vector-store paths the store keeps are
\* different and neither is nested inside the other, and the same holds of
\* the upload paths.
C3_PathsDisjoint ==
    \A u \in UserIds : \A v \in UserIds \ {u} :
        /\ UserChromaPath(u) \in DOMAIN chroma /\ UserChromaPath(v) \in DOMAIN chroma
        /\ UserUploadDir(u) \in DOMAIN uploads /\ UserUploadDir(v) \in DOMAIN uploads
        /\ ~IsPrefix(UserChromaPath(u), UserChromaPath(v))
        /\ ~IsPrefix(UserUploadDir(u), UserUploadDir(v))

\* C4: a doc-QA request of a user whose namespace directory is absent or
\* empty is answered with the fixed fallback string as the response string,
\* and the completion model is not invoked.
C4_EmptyNamespaceFallback ==
    [][(/\ lastOp'.op = "chat"
        /\ lastOp'.fn = "doc_qa"
        /\ lastOp'.status # 400
        /\ NamespaceEmpty(chroma, lastOp'.user))
          => (lastOp'.value = FallbackResponse /\ ~lastOp'.llm_invoked)]_vars

\* C5: a doc-QA question a user asks after that user's clear of "doc_qa",
\* with no upload in between, is answered with the fallback string.
C5_ClearThenFallback ==
    [][(/\ lastOp.op = "clear"
        /\ lastOp'.op = "chat"
        /\ lastOp'.fn = "doc_qa"
        /\ lastOp'.user = lastOp.user
        /\ lastOp'.status # 400)
          => lastOp'.value = FallbackResponse]_vars

\* C6: an upload of a supported, readable document of N pages with a
\* non-blank chunk, all of whose storage and embedding calls succeed,
\* answers 200 with page_count = N and chunk_count > 0.
C6_UploadSucceeds ==
    (lastOp.op = "upload" /\ lastOp.quiet /\ Lower(FileOfDoc(lastOp.doc).ext) \in ALLOWED_EXTENSIONS)
        => /\ lastOp.status = 200
           /\ lastOp.page_count = FileOfDoc(lastOp.doc).pages
           /\ lastOp.chunk_count > 0

\* C7: when the health check embed_query answers with an empty vector,
\* init_embeddings raises, init_vector_store raises, and the user's namespace
\* on disk is what it was before the call.
C7_EmbeddingUnavailable ==
    \A u \in UserIds, store \in StoreOutcomes :
        LET r == init_vector_store(Disk, split_documents(FileA), u, "empty", store) IN
        /\ init_embeddings("empty").raised
        /\ r.raised
        /\ r.d.chroma[UserChromaPath(u)] = chroma[UserChromaPath(u)]

\* C8: clearing the memory of (user, f) leaves the memory object and the
\* history of (user, g) unchanged for every other function type g.
C8_ClearKeepsOtherFunctions ==
    [][lastOp'.op = "clear" =>
         \A g \in MemoryFunctions \ {lastOp'.fn} :
            MemEntry(memory', lastOp'.user, g) = MemEntry(memory, lastOp'.user, g)]_vars

\* a clear of (user, f) has just emptied a history while the same user holds
\* a non-empty history for another function type
C8_Witness ==
    /\ lastOp.op = "clear"
    /\ lastOp.user \in DOMAIN memory
    /\ lastOp.fn \in DOMAIN memory[lastOp.user]
    /\ \E g \in DOMAIN memory[lastOp.user] \ {lastOp.fn} :
          memory[lastOp.user][g].hist # <<>>

\* C9: no operation of user A on the registry - get-or-create, recording a
\* turn, clear of one function type, clear of all of A's memories - changes
\* a memory entry of another user B.
C9_OtherUsersUntouched ==
    [][lastOp'.op \in {"get_memory", "save_context", "clear", "clear_user"} =>
         \A v \in UserIds \ {lastOp'.user}, f \in MemoryFunctions :
            /\ MemEntry(memory', v, f) = MemEntry(memory, v, f)
            /\ (v \in DOMAIN memory') = (v \in DOMAIN memory)]_vars

\* all memories of user A have just been cleared while another user holds a
\* non-empty history
C9_Witness ==
    /\ lastOp.op = "clear_user"
    /\ \E v \in DOMAIN memory \ {lastOp.user} :
          \E f \in DOMAIN memory[v] : memory[v][f].hist # <<>>

\* C10: a chat request with a function type outside the known ones is
\* answered (status 200) by the general LLM system with the general role
\* description.
C10_UnknownFunctionGeneral ==
    (lastOp.op = "chat" /\ lastOp.fn \notin valid_functions /\ lastOp.status # 400)
        => /\ lastOp.status = 200
           /\ lastOp.system = "general"
           /\ lastOp.role = GeneralRoleDescription

\* a non-blank chat request with an unknown function type has been answered
C10_Witness ==
    /\ lastOp.op = "chat"
    /\ lastOp.fn = "unknown_value"
    /\ lastOp.status = 200
    /\ lastOp.llm_invoked

\* C12: every non-streaming chat request with a non-empty message is
\* answered with status 200 and a response that is a string, whatever
\* failed on the way.
C12_ChatAlwaysAnswers ==
    (lastOp.op = "chat" /\ ~lastOp.blank)
        => (lastOp.status = 200 /\ lastOp.value.type = "str")

\* C13: an upload whose extension, compared as the handler compares it, is
\* outside the allowed set is answered 400 and changes nothing: no file is
\* saved, no upload directory is created, no vector store is cleared and no
\* handle is dropped.
C13_BadExtensionRejected ==
    [][(lastOp'.op = "upload"
        /\ Lower(FileOfDoc(lastOp'.doc).ext) \notin {".txt", ".pdf", ".docx", ".doc"})
       => (/\ lastOp'.status = 400
           /\ UNCHANGED <<chroma, uploads, active>>)]_vars

\* an upload of the .exe file was answered 400 while the uploader had a
\* stored document and a saved file that a clear would have removed
C13_Witness ==
    /\ lastOp.op = "upload"
    /\ lastOp.doc = FileC.doc
    /\ lastOp.status = 400
    /\ ~NamespaceEmpty(chroma, lastOp.user)
    /\ SavedFileOnDisk(uploads, lastOp.user, FileB)

C11_DocQAFailureCaught ==
    /\ (lastOp.op = "chat" /\ lastOp.fn = "doc_qa" /\ lastOp.failed)
          => (/\ lastOp.status = 200
              /\ lastOp.value = [type |-> "str", text |-> DocErrorMessage])
    /\ \A i \in DOMAIN Events : Events[i].type # "error"
    /\ (stream.pc = "closed" /\ stream.fn = "doc_qa" /\ stream.failed)
          => (/\ Len(Events) >= 2
              /\ Events[Len(Events) - 1] = [type |-> "content", content |-> DocErrorMessage])

\* the completion model failed in a non-streaming doc-QA request after it
\* had failed in a streaming one that has ended
C11_Witness ==
    /\ lastOp.op = "chat"
    /\ lastOp.fn = "doc_qa"
    /\ lastOp.failed
    /\ stream.pc = "closed"
    /\ stream.fn = "doc_qa"
    /\ stream.failed

\* C16: a chat request, streaming or not, whose message is empty or white
\* space only is answered 400, and neither the cache of LLM systems nor the
\* vector stores, their handles, the upload directories, the memories or the
\* response stream change: no system is looked up, no completion model and
\* no vector store is reached.
C16_BlankMessageRejected ==
    [][(lastOp'.op \in {"chat", "stream"} /\ lastOp'.blank)
       => (/\ lastOp'.status = 400
           /\ UNCHANGED <<llm_systems, chroma, uploads, active, memory, nextMemId, stream>>
           /\ (lastOp'.op = "chat" => ~lastOp'.llm_invoked))]_vars

\* a white-space message was sent to the streaming endpoint for a function
\* whose system was not cached, by a user with a stored document
C16_Witness ==
    /\ lastOp.op = "stream"
    /\ lastOp.blank
    /\ lastOp.fn \notin llm_systems
    /\ ~NamespaceEmpty(chroma, lastOp.user)

\* the events sent so far are content events, but for the last one of a
\* response that has ended, which is the done sentinel or an error event
WellFramed ==
    /\ \A i \in DOMAIN Events :
          (i < Len(Events) \/ stream.pc # "closed") => Events[i].type = "content"
    /\ stream.pc = "closed"
          => (Len(Events) >= 1 /\ Events[Len(Events)].type \in {"done", "error"})

\* C17: every streaming response is zero or more content events followed by
\* exactly one terminal event (the done sentinel or an error event); nothing
\* is sent after the terminal event, and a response that has started ends.
C17_StreamFraming ==
    /\ []WellFramed
    /\ [][stream.pc = "closed" => (stream'.pc = "open" \/ stream' = stream)]_vars
    /\ \A u \in UserIds : \A fn \in StreamFunctions :
          (stream.pc = "open" /\ stream.user = u /\ stream.fn = fn)
             ~> (stream.pc = "closed" /\ stream.user = u /\ stream.fn = fn)

\* a response with at least two content events has ended with the sentinel
C17_Witness ==
    /\ stream.pc = "closed"
    /\ Len(Events) >= 3
    /\ Events[Len(Events)].type = "done"

\* C18: a response during which the completion model or the retriever failed
\* ends with an error event and holds no done sentinel.
C18_FailureIsErrorEvent ==
    (stream.pc = "closed" /\ stream.failed)
        => (/\ Events[Len(Events)].type = "error"
            /\ \A i \in DOMAIN Events : Events[i].type # "done")

\* C19: a memory clear - of the current (general) memory, of one function
\* type, of all memories of a user - is answered with success, leaves the
\* registry as it is when the entry it names is absent (no entry is made),
\* and clearing once more changes nothing.
C19_ClearIdempotent ==
    [][/\ lastOp'.op = "clear" =>
            /\ lastOp'.status = 200
            /\ clear_memory_for_function(memory', lastOp'.fn, lastOp'.user) = memory'
            /\ (MemEntry(memory, lastOp'.user, lastOp'.fn).id = 0) => (memory' = memory)
       /\ lastOp'.op = "clear_user" =>
            /\ lastOp'.status = 200
            /\ clear_all_user_memories(memory', lastOp'.user) = memory'
            /\ (lastOp'.user \notin DOMAIN memory) => (memory' = memory)]_vars

\* a function type was cleared for a user who holds a memory of another
\* function type only, and the registry kept that shape
C19_Witness ==
    /\ lastOp.op = "clear"
    /\ lastOp.user \in DOMAIN memory
    /\ lastOp.fn \notin DOMAIN memory[lastOp.user]
    /\ \E v \in UserIds \ DOMAIN memory : TRUE

\* C20: after clear_all_user_memories(U) the registry has no entry for U and
\* the count of active users is one less when U had an entry and the same
\* otherwise; a get-or-create for a user without an entry returns a memory
\* object that is new (its identity is held by no entry) and empty.
C20_ClearAllRemovesUser ==
    [][/\ lastOp'.op = "clear_user" =>
            /\ lastOp'.user \notin DOMAIN memory'
            /\ get_active_users_count(memory')
                 = get_active_users_count(memory)
                     - (IF lastOp'.user \in DOMAIN memory THEN 1 ELSE 0)
       /\ (lastOp'.op = "get_memory" /\ lastOp'.user \notin DOMAIN memory) =>
            /\ MemEntry(memory', lastOp'.user, lastOp'.fn).hist = <<>>
            /\ MemEntry(memory', lastOp'.user, lastOp'.fn).id # 0
            /\ \A v \in UserIds, f \in MemoryFunctions :
                  MemEntry(memory, v, f).id # MemEntry(memory', lastOp'.user, lastOp'.fn).id]_vars

\* a memory was got again for a user after the first memory object made had
\* left the registry with a clear of all memories of its user
C20_Witness ==
    /\ lastOp.op = "get_memory"
    /\ MemEntry(memory, lastOp.user, lastOp.fn).id >= 2
    /\ MemEntry(memory, lastOp.user, lastOp.fn).hist = <<>>
    /\ \A v \in UserIds, f \in MemoryFunctions : MemEntry(memory, v, f).id # 1
    /\ DOMAIN memory[lastOp.user] = {lastOp.fn}

\* C15: the summary of a split document is at most 500 characters long for
\* every input, the truncated ones that end with the ellipsis included.
C15_SummaryAtMost500 ==
    lastOp.op = "summary" => Len(lastOp.summary) <= 500

StepsOf(k) == {i \in DOMAIN lastOp.steps : lastOp.steps[i].step = k}

\* C25: a clear tries the deletion of the whole directory at most 3 times,
\* sleeps only right after a resource-busy failure of attempt 1 or 2, tries
\* nothing after the first deletion that succeeds, and walks the directory
\* file by file only right after the third resource-busy failure; the loop
\* ends with one of: success, the fallback, an error other than busy.
C25_RetryLoop ==
    lastOp.op = "clear_store" =>
        LET st      == lastOp.steps
            Tries   == StepsOf("rmtree")
            Nth(i)  == Cardinality({j \in Tries : j <= i})
        IN  /\ Cardinality(Tries) \in 1 .. 3
            /\ Cardinality(Tries) = lastOp.attempts
            /\ Cardinality(StepsOf("sleep")) = lastOp.sleeps
            /\ \A i \in StepsOf("sleep") :
                  /\ i - 1 \in Tries
                  /\ st[i - 1].outcome = "busy"
                  /\ Nth(i) \in {1, 2}
            /\ \A i \in Tries : st[i].outcome = "ok" => i = Len(st)
            /\ \A i \in StepsOf("walk") :
                  /\ i - 1 \in Tries
                  /\ st[i - 1].outcome = "busy"
                  /\ Nth(i) = 3
                  /\ i = Len(st)
            /\ lastOp.fallback = (StepsOf("walk") # {})
            /\ \A i \in Tries :
                  (st[i].outcome = "busy" /\ Nth(i) < 3) => (i + 2 \in Tries)

\* the directory was busy three times: two sleeps, then the fallback
C25_Witness ==
    /\ lastOp.op = "clear_store"
    /\ Cardinality(StepsOf("sleep")) = 2
    /\ StepsOf("walk") # {}

\* C26 as amended: in a clear every handle tracked for the user has its close
\* tried (a failing close is logged and swallowed) and the user's entry is
\* removed from the registry before the first attempt to delete the
\* directory; no deletion is tried while a handle of the user is registered.
C26_ReleaseBeforeDelete ==
    lastOp.op = "clear_store" =>
        LET st == lastOp.steps IN
        /\ Cardinality(StepsOf("close")) = lastOp.handles
        /\ lastOp.handles > 0 => Cardinality(StepsOf("unregister")) = 1
        /\ \A i \in StepsOf("close") \cup StepsOf("unregister") :
              \A j \in StepsOf("rmtree") : i < j
        /\ \A i \in StepsOf("close") : \A j \in StepsOf("unregister") : i < j
        /\ \A j \in StepsOf("rmtree") : st[j].registered = 0

\* a clear of a user with a tracked handle whose close failed went on to
\* delete the directory
C26_Witness ==
    /\ lastOp.op = "clear_store"
    /\ lastOp.handles > 0
    /\ \E i \in StepsOf("close") : ~lastOp.steps[i].closed
    /\ StepsOf("rmtree") # {}

\* C26 as stated: every handle tracked for the user is closed and removed
\* from the registry before the first attempt to delete the directory.
C26_ClosedBeforeDelete ==
    lastOp.op = "clear_store" =>
        /\ Cardinality(StepsOf("close")) = lastOp.handles
        /\ \A i \in StepsOf("close") :
              /\ lastOp.steps[i].closed
              /\ \A j \in StepsOf("rmtree") : i < j
        /\ \A j \in StepsOf("rmtree") : lastOp.steps[j].registered = 0

\* C22: no vector store ever holds a chunk of white space: a rebuild inserts
\* the non-blank chunks of the document only; and an upload whose chunks are
\* all blank fails at the rebuild, which adds no record, creates no database
\* in the namespace and leaves no handle of the user in the registry.
C22_EmptyChunkFilter ==
    /\ [](\A u \in UserIds : \A c \in chroma[UserChromaPath(u)].recs : ~c.blank)
    /\ [][(lastOp'.op = "upload" /\ lastOp'.status = 200) =>
            LET f == FileOfDoc(lastOp'.doc)
                p == UserChromaPath(lastOp'.user)
            IN  {c \in chroma'[p].recs : c.doc = f.doc}
                   = {f.chunks[i] : i \in {j \in DOMAIN f.chunks : ~f.chunks[j].blank}}]_vars
    /\ [][(/\ lastOp'.op = "upload"
           /\ lastOp'.stage \in {"vector_store", "done"}
           /\ \A i \in DOMAIN FileOfDoc(lastOp'.doc).chunks :
                 FileOfDoc(lastOp'.doc).chunks[i].blank) =>
            LET p == UserChromaPath(lastOp'.user) IN
            /\ lastOp'.status = 500
            /\ chroma'[p].recs \subseteq chroma[p].recs
            /\ chroma'[p].db => chroma[p].db
            /\ TrackedHandles(active', lastOp'.user) = <<>>]_vars

\* the file with blank chunks was uploaded with success
C22_Witness ==
    /\ lastOp.op = "upload"
    /\ lastOp.doc = FileE.doc
    /\ lastOp.status = 200
    /\ lastOp.chunk_count = 3

\* C29: an upload is answered with success, the rebuild having returned its
\* retriever, only if the namespace holds at least one record after the
\* insertion: a record count of zero makes the rebuild fail.
C29_ZeroCountFails ==
    (lastOp.op = "upload" /\ lastOp.status = 200)
        => chroma[UserChromaPath(lastOp.user)].recs # {}

\* C24: after POST /documents/clear has answered, no user has an uploaded
\* file and no user's vector store has content.
C24_ClearAllRemovesEverything ==
    lastOp.op = "clear_documents" =>
        \A u \in UserIds :
            /\ uploads[UserUploadDir(u)].files = {}
            /\ chroma[UserChromaPath(u)].recs = {}
            /\ ~chroma[UserChromaPath(u)].db

\* C30: when the clear of the current memory (clear_memory with neither a
\* function type nor a user id) has been reported as done, the memory clear
\* and the clear of the document data were both carried out.
C30_CurrentMemoryCleared ==
    (lastOp.op = "clear_memory" /\ lastOp.fn = "current" /\ lastOp.status = 200)
        => /\ lastOp.memory_cleared
           /\ lastOp.documents_cleared

\* C23: the context the completion model gets for a doc-QA question of user
\* U is made of at most 4 chunk texts, of distinct chunks stored in U's own
\* namespace, each followed by a blank line but for the last.
C23_ContextTopFour ==
    (lastOp.op = "chat" /\ lastOp.fn = "doc_qa" /\ lastOp.llm_invoked) =>
        LET docs == lastOp.retrieved
            n    == Len(docs)
            text == lastOp.context
        IN  /\ n <= 4
            /\ \A i \in 1 .. n : docs[i] \in chroma[UserChromaPath(lastOp.user)].recs
            /\ \A i \in 1 .. n : \A j \in 1 .. n : i # j => docs[i] # docs[j]
            /\ Len(text) = IF n = 0 THEN 0 ELSE 4 * n - 2
            /\ \A i \in 1 .. n :
                  /\ SubSeq(text, 4 * i - 3, 4 * i - 2) = <<docs[i].doc, docs[i].i>>
                  /\ i < n => SubSeq(text, 4 * i - 1, 4 * i) = <<"\n", "\n">>

\* a question was answered from four chunks of a namespace that holds more
C23_Witness ==
    /\ lastOp.op = "chat"
    /\ lastOp.fn = "doc_qa"
    /\ lastOp.llm_invoked
    /\ Len(lastOp.retrieved) = 4
    /\ Cardinality(chroma[UserChromaPath(lastOp.user)].recs) > 4
    /\ \E v \in UserIds \ {lastOp.user} :
          chroma[UserChromaPath(v)].recs \ chroma[UserChromaPath(lastOp.user)].recs # {}

\* C28: loading a plain-text file tries the encodings utf-8, gbk, gb2312,
\* utf-8-sig, latin-1 in this order; the load returns with the first
\* encoding that loads without error, the later ones not being tried, and
\* it raises only when every encoding of the list has failed.
C28_FirstEncodingWins ==
    lastOp.op = "load_text" =>
        LET order == <<"utf-8", "gbk", "gb2312", "utf-8-sig", "latin-1">>
            n     == Len(lastOp.tried)
        IN  /\ n \in 1 .. 5
            /\ lastOp.tried = SubSeq(order, 1, n)
            /\ \A i \in 1 .. n - 1 : lastOp.outcomes[order[i]] # "ok"
            /\ ~lastOp.raised =>
                  /\ lastOp.encoding = order[n]
                  /\ lastOp.outcomes[order[n]] = "ok"
            /\ lastOp.raised <=> (\A i \in 1 .. 5 : lastOp.outcomes[order[i]] # "ok")

\* utf-8 failed to decode, gbk loaded, and a later encoding would have loaded too
C28_Witness ==
    /\ lastOp.op = "load_text"
    /\ lastOp.outcomes["utf-8"] = "decode_error"
    /\ lastOp.outcomes["gbk"] = "ok"
    /\ lastOp.outcomes["latin-1"] = "ok"
    /\ lastOp.encoding = "gbk"

\* C27: whatever the order in which the requests run between their
\* suspension points, a key (user, function) holds at most one memory object
\* and no object is held by two keys; the object of a key changes only when
\* a get-or-create finds the key absent (it makes the object) or when the
\* clear of all memories of the user removes it; every other get-or-create
\* returns the object that is there, with its history.
C27_OneMemoryPerKey ==
    /\ [](\A u \in UserIds, v \in UserIds, f \in MemoryFunctions, g \in MemoryFunctions :
             (MemEntry(memory, u, f).id # 0 /\ <<u, f>> # <<v, g>>)
                => MemEntry(memory, u, f).id # MemEntry(memory, v, g).id)
    /\ [][\A u \in UserIds, f \in MemoryFunctions :
             MemEntry(memory', u, f).id # MemEntry(memory, u, f).id =>
                \/ /\ lastOp'.op = "get_memory"
                   /\ lastOp'.user = u /\ lastOp'.fn = f
                   /\ MemEntry(memory, u, f).id = 0
                \/ /\ lastOp'.op = "clear_user"
                   /\ lastOp'.user = u
                   /\ MemEntry(memory', u, f).id = 0]_vars
    /\ [][lastOp'.op = "get_memory" =>
             \/ MemEntry(memory, lastOp'.user, lastOp'.fn).id = 0
             \/ MemEntry(memory', lastOp'.user, lastOp'.fn)
                   = MemEntry(memory, lastOp'.user, lastOp'.fn)]_vars

\* a get-or-create has returned the object of a key that holds a turn, while
\* another key holds an object as well
C27_Witness ==
    /\ lastOp.op = "get_memory"
    /\ MemEntry(memory, lastOp.user, lastOp.fn).hist # <<>>
    /\ \E v \in UserIds, g \in MemoryFunctions :
          <<v, g>> # <<lastOp.user, lastOp.fn>> /\ MemEntry(memory, v, g).id # 0

\* C31: every upload whose file name passes the extension check of the
\* endpoint is dispatched to a loader: process_uploaded_file does not take
\* its unsupported-type branch, whatever the letter case of the extension.
C31_AcceptedIsDispatched ==
    (lastOp.op = "upload" /\ lastOp.status # 400) => lastOp.loader # "unsupported"

\* C32: when the loader is invoked in an upload, the file saved by that
\* request is still in the user's upload directory.
C32_SavedFileSurvivesClear ==
    (lastOp.op = "upload" /\ lastOp.loader # "not_reached") => lastOp.saved_at_load

\* C33: an upload of user U that fails while loading, chunking or embedding
\* (it is answered 500) leaves the records of U's vector-store namespace as
\* they were before the request, so the document indexed before is still
\* retrievable.
C33_FailedUploadKeepsNamespace ==
    [][(lastOp'.op = "upload" /\ lastOp'.status = 500)
          => chroma'[UserChromaPath(lastOp'.user)].recs
                = chroma[UserChromaPath(lastOp'.user)].recs]_vars

\* C34: for every function type the role description is the same in
\* get_response, in get_response_stream and in the mapping init_system
\* returns.
C34_RoleTablesAgree ==
    lastOp.op = "prompt" =>
        /\ lastOp.role_stream = lastOp.role
        /\ lastOp.fn \in DOMAIN lastOp.roles_init
                => lastOp.roles_init[lastOp.fn] = lastOp.role

\* C35: the history text is made of the last min(10, n) of the n turns
\* supplied, in their order, one line per turn, role "user" as the human
\* speaker and every other role as the assistant, and it is the same text in
\* the streaming path.
C35_HistoryLastTen ==
    lastOp.op = "prompt" =>
        LET h == lastOp.chat_history
            n == Len(h)
            k == IF n < 10 THEN n ELSE 10
        IN  /\ Len(lastOp.history_text) = k
            /\ \A i \in 1..k :
                  lastOp.history_text[i] =
                      <<IF h[n - k + i].role = "user" THEN "Human" ELSE "AI assistant",
                        h[n - k + i].content>>
            /\ lastOp.history_text_stream = lastOp.history_text

\* a history of 12 turns with a role that is neither user nor assistant: the
\* text starts at turn 3
C35_Witness ==
    /\ lastOp.op = "prompt"
    /\ Len(lastOp.chat_history) = 12
    /\ \E i \in 1..12 : lastOp.chat_history[i].role = "system"
    /\ Len(lastOp.history_text) = 10
    /\ lastOp.history_text[1][2] = 3

\* C36: a call of get_system_for_function leaves the keys of the LLM-system
\* cache within the valid function types and evicts none; an invalid type
\* gets the general system; init_system is called only for a type that has
\* no cached system, so a system is created at most once per type; and when
\* the creation fails while a general system exists, the general system is
\* returned and the cache is left as it was.
C36_SystemCache ==
    [][lastOp'.op = "get_system" =>
          LET key == IF lastOp'.fn \in {"general", "play", "game_guide", "doc_qa", "game_wiki"}
                     THEN lastOp'.fn ELSE "general"
          IN  /\ llm_systems' \subseteq {"general", "play", "game_guide", "doc_qa", "game_wiki"}
              /\ llm_systems \subseteq llm_systems'
              /\ key = "general" => lastOp'.system = "general"
              /\ lastOp'.init_system_called => key \notin llm_systems
              /\ lastOp'.created = "ok"
                    => lastOp'.system = key /\ llm_systems' = llm_systems \cup {key}
              /\ (lastOp'.created = "raise" /\ "general" \in llm_systems)
                    => lastOp'.system = "general" /\ llm_systems' = llm_systems]_vars

\* the creation of a system failed, the general system was returned, and
\* systems of other types are cached
C36_Witness ==
    /\ lastOp.op = "get_system"
    /\ lastOp.created = "raise"
    /\ lastOp.system = "general"
    /\ lastOp.fn \notin llm_systems
    /\ Cardinality(llm_systems) >= 3

\* C37: in every reachable state each user key of the active-handle
\* registry maps to a list of exactly one handle (never an empty list, never
\* two handles), and after the clear of a user's vector store the registry
\* has no key for that user.
C37_OneHandlePerUser ==
    /\ \A u \in DOMAIN active : Len(active[u]) = 1
    /\ lastOp.op = "clear_store" => lastOp.user \notin DOMAIN active

\* both users have had their store rebuilt: each holds one handle, on their
\* own namespace
C37_Witness ==
    /\ lastOp.op = "upload"
    /\ lastOp.status = 200
    /\ DOMAIN active = UserIds
    /\ \A u \in UserIds : active[u] = <<Handle(u)>>

\* C38: clear_memory(system, function_type, user_id) called for user U leaves
\* the vector-store namespace and the tracked handles of every other user
\* as they were, for every function type, "doc_qa" included.
C38_ClearMemoryOnlyUser ==
    [][(lastOp'.op = "clear_memory" /\ lastOp'.user \in UserIds) =>
          \A v \in UserIds \ {lastOp'.user} :
              /\ chroma'[UserChromaPath(v)] = chroma[UserChromaPath(v)]
              /\ TrackedHandles(active', v) = TrackedHandles(active, v)]_vars

\* C39: in the single-store variant the chain used for a doc-QA request
\* reflects the vector store as it is at the request: when the store holds
\* an indexed document (and opening it succeeds) the retrieval chain is
\* used, and when the store directory is empty the fallback is returned.
C39_ChainFollowsStore ==
    lastOp.op = "single_doc_qa" =>
        /\ (lastOp.indexed /\ lastOp.open = "ok") => lastOp.chain = "lcel"
        /\ ~lastOp.store_files => lastOp.response = "fallback"

\* C40: an upload or a per-user clear of user U that runs while a streaming
\* doc-QA response of another user U2 is in flight (returned and not yet
\* started, or suspended between two increments) does not change what U2
\* receives: the events sent and the state of the generator stay as they
\* are, and a response that has not produced its first increment starts
\* from the same chain and the same source of increments as it would have
\* without the interleaved operation.
C40_StreamIsolation ==
    [][(/\ stream.pc \in {"open", "running"}
        /\ stream.fn = "doc_qa"
        /\ lastOp'.op \in {"upload", "clear"}
        /\ lastOp'.user # stream.user)
          => /\ stream' = stream
             /\ stream.pc = "open" =>
                   \A out \in LLMOutputs :
                       (get_response_stream_start(Disk, stream, "ok", out).st)'
                           = get_response_stream_start(Disk, stream, "ok", out).st]_vars

=============================================================================
